---- MODULE Spec2Model ----
(***************************************************************************)
(* Planner digitization automation: the retry-orchestrated two-step        *)
(* pipeline (digitizer_integration.py), the single-flight coordinator      *)
(* (automation_orchestrator.py) and the pause-triggered folder watcher      *)
(* (folder_watcher.py).                                                     *)
(*                                                                         *)
(* Three specifications share the variables below; each one drives one     *)
(* component and leaves the variables of the others untouched:             *)
(*   SpecDigitizer    DigitizerIntegration.process_batch on a list of files *)
(*   SpecCoordinator  concurrent calls of _handle_new_files                 *)
(*   SpecWatcher      FolderWatcher: observer thread, timer, stop(), clock  *)
(***************************************************************************)
EXTENDS Integers, Sequences, FiniteSets, TLC

\* ------------------------------------------------------------------ bounds
MaxAttempts == 2
MaxFiles == 2
MaxPaths == 4
MaxBatchSize == 2
MaxDate == 3
MaxBatch == 2
MaxProcessed == 3
MaxIndex == 2
MaxDay == 5
MaxPages == 2
MaxOld == 1
MaxCalls == 3
MaxEvents == 2
MaxTime == 10
\* PauseTriggeredHandler.pause_seconds, in clock ticks of half a second
pause_seconds == 2

\* ------------------------------------------------------------- variables
VARIABLES
  \* DigitizerIntegration / ProcessingConfig
  retry_attempts,        \* config.retry_attempts
  batch_size,            \* config.batch_size
  upload_to_notion,      \* argument of process_batch / process_single_image
  has_notion_uploader,   \* self.has_notion_uploader
  image_paths,           \* argument of process_batch
  results,               \* process_batch: results
  chunk_i,               \* process_batch: i of the outer loop (0-based)
  chunk_j,               \* process_batch: position inside the current chunk (1-based)
  d_pc,                  \* position of the thread running process_batch
  attempt,               \* process_single_image: loop variable
  script,                \* the pipeline's behaviour for the current file, by attempt
  calls,                 \* step invocations made for the current file
  attempt_errors,        \* error message of every failed attempt of the current file
  sleeps,                \* number of time.sleep(retry_delay) for the current file
  result,                \* the DigitizerResult process_single_image returned
  image_path,            \* process_single_image: the file it was called with
  \* AutomationOrchestrator / DateValidator
  c_lock,                \* AutomationOrchestrator.lock: the thread holding it, or NoOwner
  c_pc,                  \* position of every thread that calls _handle_new_files
  c_files,               \* _handle_new_files: file_paths
  c_decisions,           \* _handle_new_files: decisions
  c_to_process,          \* _handle_new_files: files_to_process
  c_results,             \* _handle_new_files: results
  c_log,                 \* invocations of the external collaborators, in order
  has_validator,         \* self.date_validator is not None
  existing_dates,        \* DateValidator.existing_dates: date string -> page id
  \* DateValidator: calls of detect_date_gaps and validate_batch
  v_pc,                  \* which call of the validator has returned
  v_processed_dates,     \* detect_date_gaps: argument
  v_gaps,                \* detect_date_gaps: the list it returned
  v_image_paths,         \* validate_batch: argument
  v_extracted,           \* validate_batch: what extract_date_from_image did per file
  v_decisions,           \* validate_batch: the list it returned
  \* DateValidator: refresh_existing_dates next to a reader
  r_pc,                  \* position of the thread that calls refresh_existing_dates
  r_i,                   \* _parse_existing_dates: index of the next entry of 'pages'
  summary,               \* data['pages'] of notion_pages_summary.json at the refresh
  old_index,             \* existing_dates as it was before the refresh
  iter_size,             \* size of existing_dates when the iteration of line 364 began
  \* FolderWatcher / PauseTriggeredHandler
  now,                   \* the clock, in ticks of half a second
  emitted,               \* the file system events emitted so far, with their time
  next_ev,               \* index in emitted of the next event the observer dispatches
  h_lock,                \* PauseTriggeredHandler.lock: the thread holding it, or NoOwner
  new_files,             \* PauseTriggeredHandler.new_files
  timer,                 \* PauseTriggeredHandler.timer
  trigger_waiting,       \* expired timers whose thread is at line 45 of _trigger_callback
  fired,                 \* the batches the callback was invoked with, in order
  in_callback,           \* _trigger_callback: self.callback(files_to_process) is running
  added,                 \* the paths on_created / on_moved added to new_files, in order
  o_pc,                  \* position of the observer thread
  o_event,               \* the event the observer thread is handling
  o_wake,                \* the time at which the observer thread's sleep ends
  m_pc,                  \* position of the main thread in FolderWatcher.stop
  handler_set,           \* FolderWatcher.handler is not None
  observer_set,          \* FolderWatcher.observer is not None
  observer_stopping,     \* observer.stop() was called
  join_deadline,         \* the time at which observer.join(timeout=5) gives up
  \* AutomationOrchestrator.start / stop
  a_pc,                  \* position of the main thread in start()
  running,               \* AutomationOrchestrator.running
  scheduler_set,         \* AutomationOrchestrator.scheduler is not None
  scheduler_threads,     \* number of BackgroundSchedulers started and not shut down
  fw_observer_set,       \* folder_watcher.observer is not None
  fw_observer_alive,     \* the folder watcher's observer thread is running
  watch_folder_exists,   \* the watch folder is there to be watched
  reminder_valid,        \* the reminder settings make a CronTrigger
  api_calls,             \* number of calls of start() and stop() made
  start_raised           \* the last call was a start() that raised

dvars == <<retry_attempts, batch_size, upload_to_notion, has_notion_uploader,
           image_paths, results, chunk_i, chunk_j, d_pc, attempt, script,
           calls, attempt_errors, sleeps, result, image_path>>

cvars == <<c_lock, c_pc, c_files, c_decisions, c_to_process, c_results, c_log,
           has_validator, existing_dates>>

wvars == <<now, emitted, next_ev, h_lock, new_files, timer, trigger_waiting, fired,
           in_callback, added, o_pc, o_event, o_wake, m_pc, handler_set, observer_set,
           observer_stopping, join_deadline>>

vvars == <<v_pc, v_processed_dates, v_gaps, v_image_paths, v_extracted, v_decisions>>

rvars == <<r_pc, r_i, summary, old_index, iter_size>>

avars == <<a_pc, running, scheduler_set, scheduler_threads, fw_observer_set,
           fw_observer_alive, watch_folder_exists, reminder_valid, api_calls,
           start_raised>>

vars == <<dvars, cvars, wvars, vvars, rvars, avars>>

\* --------------------------------------------------------------- helpers
Last(s) == s[Len(s)]

Min(a, b) == IF a < b THEN a ELSE b

\* Python: seq[i:j] for 0 <= i (0-based, end exclusive, clipped to the length)
Slice(s, i, j) == SubSeq(s, i + 1, Min(j, Len(s)))

\* ------------------------------------------------- digitizer_integration
\* Error messages: the text, a number formatted into it, and a nested message.
Msg(text) == [text |-> text, n |-> 0, inner |-> ""]
NoMsg == Msg("")

\* DigitizerResult (processing_time is wall-clock time and is not modelled)
DigitizerResult(success, has_output, error_message, retry_count) ==
  [success |-> success, has_output |-> has_output,
   error_message |-> error_message, retry_count |-> retry_count]

\* No call of process_single_image has returned
NoResult == DigitizerResult(FALSE, FALSE, NoMsg, -1)

\* process_single_image is not running
NoImage == 0

\* The image_path field of the DigitizerResult that process_single_image returns
ForImage(r, path) ==
  [success |-> r.success, has_output |-> r.has_output,
   error_message |-> r.error_message, retry_count |-> r.retry_count,
   image_path |-> path]

\* What one run of planner_digitizer.py can do (subprocess.run, lines 193-241)
Step1Outcomes == {"ok", "nonzero", "timeout", "error"}
\* What one run of notion_uploader.py can do (lines 247-303)
Step2Outcomes == {"ok", "nojson", "nonzero", "timeout", "error"}

_run_digitizer_step1(s1) ==
  CASE s1 = "ok"      -> DigitizerResult(TRUE, TRUE, NoMsg, 0)
    [] s1 = "nonzero" -> DigitizerResult(FALSE, FALSE, Msg("Digitizer failed: stderr"), 0)
    [] s1 = "timeout" -> DigitizerResult(FALSE, FALSE, Msg("Digitizer timeout after seconds"), 0)
    [] OTHER          -> DigitizerResult(FALSE, FALSE, Msg("Digitizer step 1 error: e"), 0)

_run_notion_upload_step2(s2) ==
  CASE s2 = "ok"      -> DigitizerResult(TRUE, FALSE, NoMsg, 0)
    [] s2 = "nojson"  -> DigitizerResult(FALSE, FALSE, Msg("No JSON file found for Notion upload"), 0)
    [] s2 = "nonzero" -> DigitizerResult(FALSE, FALSE, Msg("Notion upload failed: stderr"), 0)
    [] s2 = "timeout" -> DigitizerResult(FALSE, FALSE, Msg("Notion upload timeout"), 0)
    [] OTHER          -> DigitizerResult(FALSE, FALSE, Msg("Notion upload step 2 error: e"), 0)

\* (mutant) the upload runs whenever step 1 succeeded
Step2Runs_unasked(s1, upload, uploader) == _run_digitizer_step1(s1).success

\* Step 2 runs only if step 1 succeeded, upload was requested and the uploader exists
Step2Runs(s1, upload, uploader) ==
  /\ _run_digitizer_step1(s1).success
  /\ upload
  /\ uploader

\* (mutant) the upload alone is retried once step 1 has succeeded for the file
_run_digitizer_calls_upload_only(o, upload, uploader) ==
  IF \E k \in 1..Len(calls) : calls[k].step = "step1" /\ calls[k].success
    THEN <<[step |-> "step2", success |-> _run_notion_upload_step2(o.s2).success]>>
    ELSE <<[step |-> "step1", success |-> _run_digitizer_step1(o.s1).success]>>
         \o (IF Step2Runs(o.s1, upload, uploader)
               THEN <<[step |-> "step2", success |-> _run_notion_upload_step2(o.s2).success]>>
               ELSE <<>>)

\* The step invocations one call of _run_digitizer makes, in order
_run_digitizer_calls(o, upload, uploader) ==
  <<[step |-> "step1", success |-> _run_digitizer_step1(o.s1).success]>>
  \o (IF Step2Runs(o.s1, upload, uploader)
        THEN <<[step |-> "step2", success |-> _run_notion_upload_step2(o.s2).success]>>
        ELSE <<>>)

\* The DigitizerResult of one call of _run_digitizer
_run_digitizer(o, upload, uploader) ==
  LET step1_result == _run_digitizer_step1(o.s1)
      step2_result == _run_notion_upload_step2(o.s2)
  IN  IF ~step1_result.success THEN step1_result
      ELSE IF upload /\ uploader
        THEN IF step2_result.success
               THEN DigitizerResult(TRUE, step1_result.has_output, NoMsg, 0)
               ELSE DigitizerResult(FALSE, step1_result.has_output,
                      [text |-> "Step 1 succeeded but Step 2 failed: ", n |-> 0,
                       inner |-> step2_result.error_message.text], 0)
        ELSE step1_result

\* One attempt of the pipeline as process_single_image sees it: the two steps'
\* outcomes, or an exception escaping the call (a test double of _run_digitizer;
\* the real one catches every Exception at line 171).
PipelineOutcomes ==
  [raises : {FALSE}, s1 : Step1Outcomes \ {"ok"}, s2 : {"ok"}]
    \cup [raises : {FALSE}, s1 : {"ok"}, s2 : Step2Outcomes]
    \cup [raises : {TRUE}, s1 : {"ok"}, s2 : {"ok"}]

\* (mutant) a successful attempt is not recognised
AttemptSucceeds_never(o) == FALSE

\* result.success of an attempt that did not raise (line 75)
AttemptSucceeds(o) ==
  /\ ~o.raises
  /\ _run_digitizer(o, upload_to_notion, has_notion_uploader).success

AttemptError(o) ==
  IF o.raises THEN Msg("exception: e")
  ELSE _run_digitizer(o, upload_to_notion, has_notion_uploader).error_message

\* (mutant) the terminal failure carries no message
ExhaustedMessage_blank(n) == [text |-> "", n |-> 0, inner |-> ""]

\* The message of the result returned once every attempt has failed (line 98)
ExhaustedMessage(n) == [text |-> "Failed after attempts", n |-> n, inner |-> ""]

\* (mutant) the loop stops one attempt early
AttemptRange_short(n) == 0..(n - 2)

\* The indices the loop "for attempt in range(retry_attempts)" runs through
AttemptRange(n) == 0..(n - 1)

\* (mutant) retry_count counts the successful attempt too
SuccessRetryCount_attempts(a) == a + 1

\* retry_count of a result that succeeded in loop iteration a (line 77)
SuccessRetryCount(a) == a

\* (mutant) the chunk runs one file into the next chunk
Chunk_overlap(paths, i, size) == Slice(paths, i, i + size + 1)

\* process_batch, lines 112-113: the chunk starting at i
Chunk(paths, i, size) == Slice(paths, i, i + size)

InitDigitizer ==
  /\ retry_attempts \in 1..MaxAttempts
  /\ batch_size \in 1..MaxBatchSize
  /\ upload_to_notion \in BOOLEAN
  /\ has_notion_uploader \in BOOLEAN
  /\ image_paths \in {[k \in 1..n |-> k] : n \in 0..MaxFiles}
  /\ results = <<>>
  /\ chunk_i = 0
  /\ chunk_j = 1
  /\ d_pc = "batch"
  /\ attempt = 0
  /\ script = <<>>
  /\ calls = <<>>
  /\ attempt_errors = <<>>
  /\ sleeps = 0
  /\ result = NoResult
  /\ image_path = NoImage

\* process_batch is called with longer lists, by an integration that makes one
\* attempt per file and does not upload
InitChunking ==
  /\ retry_attempts = 1
  /\ batch_size \in 1..MaxBatchSize
  /\ upload_to_notion = FALSE
  /\ has_notion_uploader \in BOOLEAN
  /\ image_paths \in {[k \in 1..n |-> k] : n \in 0..MaxPaths}
  /\ results = <<>>
  /\ chunk_i = 0
  /\ chunk_j = 1
  /\ d_pc = "batch"
  /\ attempt = 0
  /\ script = <<>>
  /\ calls = <<>>
  /\ attempt_errors = <<>>
  /\ sleeps = 0
  /\ result = NoResult
  /\ image_path = NoImage

\* No batch is being processed (the other specifications)
IdleDigitizer ==
  /\ retry_attempts = MaxAttempts
  /\ batch_size = 1
  /\ upload_to_notion = TRUE
  /\ has_notion_uploader = TRUE
  /\ image_paths = <<>>
  /\ results = <<>>
  /\ chunk_i = 0
  /\ chunk_j = 1
  /\ d_pc = "idle"
  /\ attempt = 0
  /\ script = <<>>
  /\ calls = <<>>
  /\ attempt_errors = <<>>
  /\ sleeps = 0
  /\ result = NoResult
  /\ image_path = NoImage

\* (mutant) the loops end at the first failed file
BatchDone_abort(i, paths, rs) ==
  i >= Len(paths) \/ (rs # <<>> /\ ~Last(rs).success)

\* process_batch, line 112: range(0, total_images, batch_size) is exhausted
BatchDone(i, paths, rs) == i >= Len(paths)

\* process_batch, lines 112-121: take the next file and call process_single_image
process_batch_next ==
  /\ d_pc = "batch"
  /\ ~BatchDone(chunk_i, image_paths, results)
  /\ IF chunk_j <= Len(Chunk(image_paths, chunk_i, batch_size))
       THEN /\ \E s \in [1..retry_attempts -> PipelineOutcomes] : script' = s
            /\ image_path' = Chunk(image_paths, chunk_i, batch_size)[chunk_j]
            /\ d_pc' = "attempt"
            /\ UNCHANGED <<chunk_i, chunk_j>>
       ELSE /\ chunk_i' = chunk_i + batch_size
            /\ chunk_j' = 1
            /\ UNCHANGED <<script, d_pc, image_path>>
  /\ UNCHANGED <<retry_attempts, batch_size, upload_to_notion, has_notion_uploader,
                 image_paths, results, attempt, calls, attempt_errors, sleeps, result>>
  /\ UNCHANGED <<cvars, wvars, vvars, rvars, avars>>

\* process_batch, lines 127-134: every chunk is done
process_batch_return ==
  /\ d_pc = "batch"
  /\ BatchDone(chunk_i, image_paths, results)
  /\ d_pc' = "done"
  /\ UNCHANGED <<retry_attempts, batch_size, upload_to_notion, has_notion_uploader,
                 image_paths, results, chunk_i, chunk_j, attempt, script, calls,
                 attempt_errors, sleeps, result, image_path>>
  /\ UNCHANGED <<cvars, wvars, vvars, rvars, avars>>

\* process_single_image, lines 68-91: one iteration of the attempt loop
process_single_image_attempt ==
  /\ d_pc = "attempt"
  /\ attempt \in AttemptRange(retry_attempts)
  /\ LET o == script[attempt + 1]
     IN  /\ calls' = IF o.raises THEN calls \o <<[step |-> "raise", success |-> FALSE]>>
                     ELSE calls \o _run_digitizer_calls(o, upload_to_notion, has_notion_uploader)
         /\ IF AttemptSucceeds(o)
              THEN /\ result' = ForImage(
                                  [_run_digitizer(o, upload_to_notion, has_notion_uploader)
                                     EXCEPT !.retry_count = SuccessRetryCount(attempt)],
                                  image_path)
                   /\ d_pc' = "returned"
                   /\ UNCHANGED <<attempt, attempt_errors, sleeps>>
              ELSE /\ attempt_errors' = Append(attempt_errors, AttemptError(o))
                   /\ sleeps' = IF attempt < retry_attempts - 1 THEN sleeps + 1 ELSE sleeps
                   /\ attempt' = attempt + 1
                   /\ UNCHANGED <<result, d_pc>>
  /\ UNCHANGED <<retry_attempts, batch_size, upload_to_notion, has_notion_uploader,
                 image_paths, results, chunk_i, chunk_j, script, image_path>>
  /\ UNCHANGED <<cvars, wvars, vvars, rvars, avars>>

\* process_single_image, lines 93-101: the loop ran out
process_single_image_exhausted ==
  /\ d_pc = "attempt"
  /\ attempt \notin AttemptRange(retry_attempts)
  /\ result' = ForImage(
                  DigitizerResult(FALSE, FALSE, ExhaustedMessage(retry_attempts), retry_attempts),
                  image_path)
  /\ d_pc' = "returned"
  /\ UNCHANGED <<retry_attempts, batch_size, upload_to_notion, has_notion_uploader,
                 image_paths, results, chunk_i, chunk_j, attempt, script, calls,
                 attempt_errors, sleeps, image_path>>
  /\ UNCHANGED <<cvars, wvars, vvars, rvars, avars>>

\* process_batch, lines 121-125: process_single_image has returned; its result is
\* appended and the call's locals are gone
process_batch_append ==
  /\ d_pc = "returned"
  /\ results' = Append(results, result)
  /\ chunk_j' = chunk_j + 1
  /\ d_pc' = "batch"
  /\ attempt' = 0
  /\ script' = <<>>
  /\ calls' = <<>>
  /\ attempt_errors' = <<>>
  /\ sleeps' = 0
  /\ result' = NoResult
  /\ image_path' = NoImage
  /\ UNCHANGED <<retry_attempts, batch_size, upload_to_notion, has_notion_uploader,
                 image_paths, chunk_i>>
  /\ UNCHANGED <<cvars, wvars, vvars, rvars, avars>>

NextDigitizer ==
  \/ process_batch_next
  \/ process_batch_return
  \/ process_single_image_attempt
  \/ process_single_image_exhausted
  \/ process_batch_append


\* ------------------------------------------------ automation_orchestrator
\* ProcessingDecision (date_validator.py): NoDate stands for date=None
NoDate == -1
ProcessingDecision(action, date, existing_id) ==
  [action |-> action, date |-> date, existing_id |-> existing_id]

\* (mutant) without a validator nothing is processed
DefaultDecisions_skip(file_paths) ==
  [k \in 1..Len(file_paths) |-> [action |-> "skip", date |-> -1, existing_id |-> ""]]

\* _handle_new_files, lines 262-268: the decisions made without a validator
DefaultDecisions(file_paths) ==
  [k \in 1..Len(file_paths) |-> ProcessingDecision("new", NoDate, "")]

\* errors = [r.error_message for r in results if r.error_message]
RECURSIVE ErrorMessages(_)
ErrorMessages(rs) ==
  IF rs = <<>> THEN <<>>
  ELSE (IF rs[1].error_message.text # "" THEN <<rs[1].error_message>> ELSE <<>>)
         \o ErrorMessages(Tail(rs))

\* sum(1 for r in results if r.success)
SuccessCount(rs) == Cardinality({k \in 1..Len(rs) : rs[k].success})

\* sum(1 for d in decisions if d.action == action)
ActionCount(decisions, action) ==
  Cardinality({k \in 1..Len(decisions) : decisions[k].action = action})

\* (mutant) every result counts as an error
ErrorCount_all(rs) == Len(rs)

\* error_count = len(results) - success_count (line 351)
ErrorCount(rs) == Len(rs) - SuccessCount(rs)

_create_processing_result(rs, decisions) ==
  [success_count |-> SuccessCount(rs),
   error_count |-> ErrorCount(rs),
   new_entries |-> ActionCount(decisions, "new"),
   updated_entries |-> ActionCount(decisions, "update"),
   skipped_count |-> ActionCount(decisions, "skip"),
   errors |-> ErrorMessages(rs)]

\* ----------------------------------------------------------- date_validator
Dates == 1..MaxDate

\* extracted_date.strftime('%Y-%m-%d')
DateStr(d) == <<"ymd", d>>

\* A key of the index that datetime.strptime(key, '%Y-%m-%d') rejects
BadKey == <<"bad", 0>>

\* datetime.strptime(date_str, '%Y-%m-%d') succeeds
Parseable(key) == key[1] = "ymd"

\* datetime.strptime(date_str, '%Y-%m-%d')
ParseDate(key) == key[2]

\* The page id the Notion query reports for a date
PageId(d) == <<"page", d>>

\* What extract_date_from_image can do for one file: a date, None, or (a test
\* double) an exception
ExtractRaises == -2
ExtractOutcomes == Dates \cup {NoDate, ExtractRaises}

\* (mutant) the index is not consulted
Decide_new(extracted, index) ==
  IF extracted = ExtractRaises THEN ProcessingDecision("skip", NoDate, "")
  ELSE IF extracted = NoDate THEN ProcessingDecision("skip", NoDate, "")
  ELSE ProcessingDecision("new", extracted, "")

\* validate_batch, lines 308-346: the decision for one file (every page id the
\* index holds is non-empty, so "if existing_id" is "the index has the date")
Decide(extracted, index) ==
  IF extracted = ExtractRaises THEN ProcessingDecision("skip", NoDate, "")
  ELSE IF extracted = NoDate THEN ProcessingDecision("skip", NoDate, "")
  ELSE IF DateStr(extracted) \in DOMAIN index
         THEN ProcessingDecision("update", extracted, index[DateStr(extracted)])
         ELSE ProcessingDecision("new", extracted, "")

\* (mutant) a file whose extraction raises gets no decision
RECURSIVE validate_batch_dropraised(_, _)
validate_batch_dropraised(extracted, index) ==
  IF extracted = <<>> THEN <<>>
  ELSE (IF extracted[1] = ExtractRaises THEN <<>> ELSE <<Decide(extracted[1], index)>>)
         \o validate_batch_dropraised(Tail(extracted), index)

\* validate_batch, lines 305-348: the loop appends one decision per path, in the
\* try block (line 336) or in the except block (line 341); 'extracted' is what
\* extract_date_from_image does for each path in turn
RECURSIVE validate_batch(_, _)
validate_batch(extracted, index) ==
  IF extracted = <<>> THEN <<>>
  ELSE <<Decide(extracted[1], index)>> \o validate_batch(Tail(extracted), index)

\* sorted(set): the elements of a set of integers in ascending order
RECURSIVE Sorted(_)
Sorted(S) ==
  IF S = {} THEN <<>>
  ELSE LET m == CHOOSE x \in S : \A y \in S : x <= y
       IN  <<m>> \o Sorted(S \ {m})

\* (mutant) the dates of the index are not added
AllDates_processedonly(processed_dates, index) ==
  {processed_dates[k] : k \in 1..Len(processed_dates)}

\* detect_date_gaps, lines 359-371: the known dates
AllDates(processed_dates, index) ==
  {processed_dates[k] : k \in 1..Len(processed_dates)}
    \cup {ParseDate(key) : key \in {x \in DOMAIN index : Parseable(x)}}

\* (mutant) the missing dates run up to the end date
DateGap_inclusive(start_date, end_date) ==
  [start_date |-> start_date, end_date |-> end_date,
   missing_dates |-> [k \in 1..(end_date - start_date) |-> start_date + k]]

\* DateGap
DateGap(start_date, end_date) ==
  [start_date |-> start_date, end_date |-> end_date,
   missing_dates |-> [k \in 1..(end_date - start_date - 1) |-> start_date + k]]

RECURSIVE GapsOf(_)
GapsOf(sorted) ==
  IF Len(sorted) < 2 THEN <<>>
  ELSE (IF sorted[2] - sorted[1] > 1 THEN <<DateGap(sorted[1], sorted[2])>> ELSE <<>>)
         \o GapsOf(Tail(sorted))

\* (mutant) no early return for an empty list
detect_date_gaps_noreturn(processed_dates, index) ==
  GapsOf(Sorted(AllDates(processed_dates, index)))

\* (mutant) the processed dates are walked through as they were passed
detect_date_gaps_aslisted(processed_dates, index) ==
  IF processed_dates = <<>> THEN <<>>
  ELSE GapsOf(processed_dates
                \o Sorted(AllDates(<<>>, index)
                            \ {processed_dates[k] : k \in 1..Len(processed_dates)}))

detect_date_gaps(processed_dates, index) ==
  IF processed_dates = <<>> THEN <<>>
  ELSE GapsOf(Sorted(AllDates(processed_dates, index)))

\* ------------------------------------------------------------- coordinator
\* The threads that call _handle_new_files: the timer thread that fires a batch
\* (folder_watcher.py line 52) and the main thread with the startup batch (line 340)
CoordThreads == {"timer", "main"}
NoOwner == "nobody"

\* (mutant) acquire never waits
LockIsFree_always(owner) == TRUE

\* threading.Lock: acquire() proceeds only while nobody holds the lock
LockIsFree(owner) == owner = NoOwner

\* (mutant) every file of the batch is processed, whatever was decided
FilesToProcess_all(file_paths, decisions) == file_paths

\* files_to_process, lines 271-276
RECURSIVE FilesToProcess(_, _)
FilesToProcess(file_paths, decisions) ==
  IF file_paths = <<>> \/ decisions = <<>> THEN <<>>
  ELSE (IF decisions[1].action \in {"new", "update"} THEN <<file_paths[1]>> ELSE <<>>)
         \o FilesToProcess(Tail(file_paths), Tail(decisions))

\* (mutant) every decision contributes its date field
DetectedDates_all(decisions) == [k \in 1..Len(decisions) |-> decisions[k].date]

\* detected_dates = [d.date for d in decisions if d.date]
RECURSIVE DetectedDates(_)
DetectedDates(decisions) ==
  IF decisions = <<>> THEN <<>>
  ELSE (IF decisions[1].date # NoDate THEN <<decisions[1].date>> ELSE <<>>)
         \o DetectedDates(Tail(decisions))

\* What process_single_image can return to process_batch
ProcessSingleImageResults ==
  {DigitizerResult(TRUE, TRUE, NoMsg, 0),
   DigitizerResult(FALSE, FALSE, ExhaustedMessage(retry_attempts), retry_attempts)}

LogEntry(t, kind, arg) == [thread |-> t, kind |-> kind, arg |-> arg]

InitCoordinator ==
  /\ c_lock = NoOwner
  /\ c_pc = [t \in CoordThreads |-> "idle"]
  /\ c_files = [t \in CoordThreads |-> <<>>]
  /\ c_decisions = [t \in CoordThreads |-> <<>>]
  /\ c_to_process = [t \in CoordThreads |-> <<>>]
  /\ c_results = [t \in CoordThreads |-> <<>>]
  /\ c_log = <<>>
  /\ has_validator \in BOOLEAN
  /\ existing_dates \in {[key \in K |-> PageId(key[2])] :
                           K \in {{}, {DateStr(1), BadKey}}}

\* Nobody calls _handle_new_files (the other specifications)
IdleCoordinator ==
  /\ c_lock = NoOwner
  /\ c_pc = [t \in CoordThreads |-> "idle"]
  /\ c_files = [t \in CoordThreads |-> <<>>]
  /\ c_decisions = [t \in CoordThreads |-> <<>>]
  /\ c_to_process = [t \in CoordThreads |-> <<>>]
  /\ c_results = [t \in CoordThreads |-> <<>>]
  /\ c_log = <<>>
  /\ has_validator = FALSE
  /\ existing_dates = <<>>

\* The body of a call has returned or raised: "with self.lock" releases the lock
\* and the call's locals are gone
Return(t) ==
  /\ c_lock' = NoOwner
  /\ c_pc' = [c_pc EXCEPT ![t] = "returned"]
  /\ c_files' = [c_files EXCEPT ![t] = <<>>]
  /\ c_decisions' = [c_decisions EXCEPT ![t] = <<>>]
  /\ c_to_process' = [c_to_process EXCEPT ![t] = <<>>]
  /\ c_results' = [c_results EXCEPT ![t] = <<>>]

\* A batch fires (or the startup scan found files): _handle_new_files is called
handle_new_files_call(t) ==
  /\ c_pc[t] = "idle"
  /\ \E n \in 1..MaxBatch : c_files' = [c_files EXCEPT ![t] = [k \in 1..n |-> k]]
  /\ c_pc' = [c_pc EXCEPT ![t] = "lock"]
  /\ UNCHANGED <<c_lock, c_decisions, c_to_process, c_results, c_log, has_validator,
                 existing_dates>>
  /\ UNCHANGED <<dvars, wvars, vvars, rvars, avars>>

\* line 252: with self.lock
handle_new_files_acquire(t) ==
  /\ c_pc[t] = "lock"
  /\ LockIsFree(c_lock)
  /\ c_lock' = t
  /\ c_pc' = [c_pc EXCEPT ![t] = "validate"]
  /\ UNCHANGED <<c_files, c_decisions, c_to_process, c_results, c_log, has_validator,
                 existing_dates>>
  /\ UNCHANGED <<dvars, wvars, vvars, rvars, avars>>

\* lines 257-268: the decisions; validate_batch extracts the date of one file
\* after the other
handle_new_files_validate(t) ==
  /\ c_pc[t] = "validate"
  /\ IF ~has_validator
       THEN /\ c_decisions' = [c_decisions EXCEPT ![t] = DefaultDecisions(c_files[t])]
            /\ c_pc' = [c_pc EXCEPT ![t] = "filter"]
            /\ UNCHANGED c_log
       ELSE /\ \E e \in ExtractOutcomes :
                 c_decisions' = [c_decisions EXCEPT
                                   ![t] = Append(@, Decide(e, existing_dates))]
            /\ c_log' = Append(c_log,
                 LogEntry(t, "extract_date", c_files[t][Len(c_decisions[t]) + 1]))
            /\ c_pc' = [c_pc EXCEPT ![t] =
                 IF Len(c_decisions[t]) + 1 = Len(c_files[t]) THEN "filter" ELSE "validate"]
  /\ UNCHANGED <<c_lock, c_files, c_to_process, c_results, has_validator, existing_dates>>
  /\ UNCHANGED <<dvars, wvars, vvars, rvars, avars>>

\* lines 270-280: the files to process; nothing to do if there is none
handle_new_files_filter(t) ==
  /\ c_pc[t] = "filter"
  /\ LET files_to_process == FilesToProcess(c_files[t], c_decisions[t])
     IN  IF files_to_process = <<>>
           THEN /\ Return(t)
                /\ UNCHANGED c_log
           ELSE /\ c_to_process' = [c_to_process EXCEPT ![t] = files_to_process]
                /\ c_pc' = [c_pc EXCEPT ![t] = "process"]
                /\ UNCHANGED <<c_lock, c_files, c_decisions, c_results, c_log>>
  /\ UNCHANGED <<has_validator, existing_dates>>
  /\ UNCHANGED <<dvars, wvars, vvars, rvars, avars>>

\* line 283: process_batch runs the pipeline on one file after the other
handle_new_files_process(t) ==
  /\ c_pc[t] = "process"
  /\ \E r \in ProcessSingleImageResults :
        c_results' = [c_results EXCEPT ![t] = Append(@, r)]
  /\ c_log' = Append(c_log,
        LogEntry(t, "digitize", c_to_process[t][Len(c_results[t]) + 1]))
  /\ c_pc' = [c_pc EXCEPT ![t] =
        IF Len(c_results[t]) + 1 = Len(c_to_process[t]) THEN "notify" ELSE "process"]
  /\ UNCHANGED <<c_lock, c_files, c_decisions, c_to_process, has_validator,
                 existing_dates>>
  /\ UNCHANGED <<dvars, wvars, vvars, rvars, avars>>

\* lines 285-290: the summary is built and pushed
handle_new_files_notify(t) ==
  /\ c_pc[t] = "notify"
  /\ c_log' = Append(c_log,
        LogEntry(t, "summary", _create_processing_result(c_results[t], c_decisions[t]).error_count))
  /\ c_pc' = [c_pc EXCEPT ![t] = "gaps"]
  /\ UNCHANGED <<c_lock, c_files, c_decisions, c_to_process, c_results, has_validator,
                 existing_dates>>
  /\ UNCHANGED <<dvars, wvars, vvars, rvars, avars>>

\* lines 292-310: gap detection and its report, then the body is done
handle_new_files_gaps(t) ==
  /\ c_pc[t] = "gaps"
  /\ LET detected_dates == DetectedDates(c_decisions[t])
         gaps == detect_date_gaps(detected_dates, existing_dates)
         runs == has_validator /\ detected_dates # <<>>
     IN  c_log' = c_log
                   \o (IF runs THEN <<LogEntry(t, "detect_gaps", Len(detected_dates))>>
                       ELSE <<>>)
                   \o (IF runs /\ gaps # <<>> THEN <<LogEntry(t, "gap_report", Len(gaps))>>
                       ELSE <<>>)
  /\ Return(t)
  /\ UNCHANGED <<has_validator, existing_dates>>
  /\ UNCHANGED <<dvars, wvars, vvars, rvars, avars>>

\* Path(f).name
FileName(file_path) == <<"name", file_path>>

\* (mutant) the exception is swallowed without a report
ExceptionHandler_silent(t) == <<>>

\* lines 312-321: what the except block pushes: the error notification with the
\* batch's file count and file names
ExceptionHandler(t) ==
  <<LogEntry(t, "error",
      [file_count |-> Len(c_files[t]),
       files |-> [k \in 1..Len(c_files[t]) |-> FileName(c_files[t][k])]])>>

\* lines 253-321: a collaborator invoked by the body (validate_batch,
\* process_batch, the notifier, detect_date_gaps) raises; the invocation is logged
\* as "raise" with the batch the call was made with, the except block reports
\* the error and the call returns normally
handle_new_files_except(t) ==
  /\ c_pc[t] \in {"validate", "process", "notify", "gaps"}
  /\ c_log' = Append(c_log, LogEntry(t, "raise", c_files[t])) \o ExceptionHandler(t)
  /\ Return(t)
  /\ UNCHANGED <<has_validator, existing_dates>>
  /\ UNCHANGED <<dvars, wvars, vvars, rvars, avars>>

NextCoordinator ==
  \E t \in CoordThreads :
     \/ handle_new_files_call(t)
     \/ handle_new_files_acquire(t)
     \/ handle_new_files_validate(t)
     \/ handle_new_files_filter(t)
     \/ handle_new_files_process(t)
     \/ handle_new_files_notify(t)
     \/ handle_new_files_gaps(t)
     \/ handle_new_files_except(t)

\* ------------------------------------------------- calls of the validator
\* The days the calls of the validator range over
Days == 1..MaxDay

\* The keys notion_pages_summary.json can hold
IndexKeys == {DateStr(d) : d \in Days} \cup {BadKey}

\* The contents of existing_dates: _parse_existing_dates (line 129) stores only
\* entries whose date string and page id are both non-empty
Indexes ==
  {[key \in K |-> PageId(key[2])] :
     K \in {S \in SUBSET IndexKeys : Cardinality(S) <= MaxIndex}}

\* The lists detect_date_gaps is called with
ProcessedInputs == UNION {[1..n -> Days] : n \in 0..MaxProcessed}

InitValidator ==
  /\ c_lock = NoOwner
  /\ c_pc = [t \in CoordThreads |-> "idle"]
  /\ c_files = [t \in CoordThreads |-> <<>>]
  /\ c_decisions = [t \in CoordThreads |-> <<>>]
  /\ c_to_process = [t \in CoordThreads |-> <<>>]
  /\ c_results = [t \in CoordThreads |-> <<>>]
  /\ c_log = <<>>
  /\ has_validator = TRUE
  /\ existing_dates \in Indexes
  /\ v_pc = "idle"
  /\ v_processed_dates = <<>>
  /\ v_gaps = <<>>
  /\ v_image_paths = <<>>
  /\ v_extracted = <<>>
  /\ v_decisions = <<>>

\* The validator is not called on its own (the other specifications)
IdleValidator ==
  /\ v_pc = "unused"
  /\ v_processed_dates = <<>>
  /\ v_gaps = <<>>
  /\ v_image_paths = <<>>
  /\ v_extracted = <<>>
  /\ v_decisions = <<>>

\* detect_date_gaps(processed_dates) is called and returns
detect_date_gaps_call ==
  /\ v_pc = "idle"
  /\ \E p \in ProcessedInputs :
        /\ v_processed_dates' = p
        /\ v_gaps' = detect_date_gaps(p, existing_dates)
  /\ v_pc' = "gaps"
  /\ UNCHANGED <<v_image_paths, v_extracted, v_decisions>>
  /\ UNCHANGED <<dvars, cvars, wvars, rvars, avars>>

\* validate_batch(image_paths) is called and returns
validate_batch_call ==
  /\ v_pc = "idle"
  /\ \E n \in 0..MaxBatch : \E e \in [1..n -> ExtractOutcomes] :
        /\ v_image_paths' = [k \in 1..n |-> k]
        /\ v_extracted' = e
        /\ v_decisions' = validate_batch(e, existing_dates)
  /\ v_pc' = "decided"
  /\ UNCHANGED <<v_processed_dates, v_gaps>>
  /\ UNCHANGED <<dvars, cvars, wvars, rvars, avars>>

NextValidator ==
  \/ detect_date_gaps_call
  \/ validate_batch_call

\* --------------------------------------- refresh of the index next to a reader
\* An empty string (date or id of an entry of 'pages')
EmptyStr == <<"", 0>>

\* The page id a later query reports for a date
RefreshedPageId(d) == <<"refreshed", d>>

\* An entry of data['pages']
Entry(date_str, page_id) == [date |-> date_str, id |-> page_id]

\* The entries notion_pages_summary.json can hold at the refresh
SummaryEntries ==
  {Entry(DateStr(1), RefreshedPageId(1)), Entry(DateStr(2), RefreshedPageId(2)),
   Entry(EmptyStr, RefreshedPageId(1)), Entry(DateStr(1), EmptyStr)}

Summaries == UNION {[1..n -> SummaryEntries] : n \in 0..MaxPages}

\* _parse_existing_dates, lines 127-130: one entry is stored in the index
ParseEntry(index, entry) ==
  IF entry.date # EmptyStr /\ entry.id # EmptyStr
    THEN [key \in DOMAIN index \cup {entry.date} |->
            IF key = entry.date THEN entry.id ELSE index[key]]
    ELSE index

\* _parse_existing_dates, lines 126-130: the index after the loop
RECURSIVE _parse_existing_dates(_, _)
_parse_existing_dates(index, entries) ==
  IF entries = <<>> THEN index
  ELSE _parse_existing_dates(ParseEntry(index, entries[1]), Tail(entries))

\* The index the validator was constructed with
OldIndexes == {index \in Indexes : Cardinality(DOMAIN index) <= MaxOld}

\* The lists detect_date_gaps is called with next to a refresh
RefreshProcessedInputs == {<<>>} \cup {<<d>> : d \in Days}

InitRefresh ==
  /\ c_lock = NoOwner
  /\ c_pc = [t \in CoordThreads |-> "idle"]
  /\ c_files = [t \in CoordThreads |-> <<>>]
  /\ c_decisions = [t \in CoordThreads |-> <<>>]
  /\ c_to_process = [t \in CoordThreads |-> <<>>]
  /\ c_results = [t \in CoordThreads |-> <<>>]
  /\ c_log = <<>>
  /\ has_validator = TRUE
  /\ existing_dates \in OldIndexes
  /\ v_pc = "idle"
  /\ v_processed_dates = <<>>
  /\ v_gaps = <<>>
  /\ v_image_paths = <<>>
  /\ v_extracted = <<>>
  /\ v_decisions = <<>>
  /\ r_pc = "idle"
  /\ r_i = 1
  /\ summary \in Summaries
  /\ old_index = existing_dates
  /\ iter_size = 0

\* The index is not refreshed (the other specifications)
IdleRefresh ==
  /\ r_pc = "unused"
  /\ r_i = 1
  /\ summary = <<>>
  /\ old_index = <<>>
  /\ iter_size = 0

\* refresh_existing_dates, lines 405-406, and _load_existing_dates, lines 59-81:
\* the query runs; _parse_existing_dates is called only if it succeeded
refresh_existing_dates_call ==
  /\ r_pc = "idle"
  /\ \E returncode_ok \in BOOLEAN : r_pc' = IF returncode_ok THEN "parsing" ELSE "failed"
  /\ UNCHANGED <<r_i, summary, old_index, iter_size>>
  /\ UNCHANGED <<dvars, cvars, wvars, vvars, avars>>

\* _parse_existing_dates, lines 126-130: one iteration of the loop over 'pages'
_parse_existing_dates_entry ==
  /\ r_pc = "parsing"
  /\ r_i <= Len(summary)
  /\ existing_dates' = ParseEntry(existing_dates, summary[r_i])
  /\ r_i' = r_i + 1
  /\ UNCHANGED <<c_lock, c_pc, c_files, c_decisions, c_to_process, c_results, c_log,
                 has_validator>>
  /\ UNCHANGED <<r_pc, summary, old_index, iter_size>>
  /\ UNCHANGED <<dvars, wvars, vvars, avars>>

\* The loop over 'pages' is over; refresh_existing_dates returns (line 407)
refresh_existing_dates_return ==
  /\ r_pc = "parsing"
  /\ r_i > Len(summary)
  /\ r_pc' = "done"
  /\ UNCHANGED <<r_i, summary, old_index, iter_size>>
  /\ UNCHANGED <<dvars, cvars, wvars, vvars, avars>>

\* validate_batch is called with one file (lines 305-307)
validate_batch_start ==
  /\ v_pc = "idle"
  /\ v_image_paths' = <<1>>
  /\ v_pc' = "validating"
  /\ UNCHANGED <<v_processed_dates, v_gaps, v_extracted, v_decisions>>
  /\ UNCHANGED <<dvars, cvars, wvars, rvars, avars>>

\* validate_batch, lines 308-348: the date of the file is extracted and looked
\* up in the index as it is now; the list is returned
validate_batch_image ==
  /\ v_pc = "validating"
  /\ \E e \in ExtractOutcomes :
        /\ v_extracted' = Append(v_extracted, e)
        /\ v_decisions' = Append(v_decisions, Decide(e, existing_dates))
  /\ v_pc' = "decided"
  /\ UNCHANGED <<v_processed_dates, v_gaps, v_image_paths>>
  /\ UNCHANGED <<dvars, cvars, wvars, rvars, avars>>

\* detect_date_gaps is called (lines 353-364): an empty list returns at once,
\* otherwise the iteration over existing_dates.keys() begins
detect_date_gaps_start ==
  /\ v_pc = "idle"
  /\ \E p \in RefreshProcessedInputs :
        /\ v_processed_dates' = p
        /\ v_pc' = IF p = <<>> THEN "gaps" ELSE "iterating"
  /\ iter_size' = Cardinality(DOMAIN existing_dates)
  /\ UNCHANGED <<v_gaps, v_image_paths, v_extracted, v_decisions>>
  /\ UNCHANGED <<r_pc, r_i, summary, old_index>>
  /\ UNCHANGED <<dvars, cvars, wvars, avars>>

\* detect_date_gaps, lines 364-401: the iteration over the keys ends. If the
\* dictionary has grown since it began, the iterator raises RuntimeError, which
\* line 398 catches, and the empty list is returned; otherwise the gaps are those
\* of the keys the index holds
detect_date_gaps_finish ==
  /\ v_pc = "iterating"
  /\ v_gaps' = IF Cardinality(DOMAIN existing_dates) # iter_size THEN <<>>
               ELSE detect_date_gaps(v_processed_dates, existing_dates)
  /\ v_pc' = "gaps"
  /\ UNCHANGED <<v_processed_dates, v_image_paths, v_extracted, v_decisions>>
  /\ UNCHANGED <<dvars, cvars, wvars, rvars, avars>>

NextRefresh ==
  \/ refresh_existing_dates_call
  \/ _parse_existing_dates_entry
  \/ refresh_existing_dates_return
  \/ validate_batch_start
  \/ validate_batch_image
  \/ detect_date_gaps_start
  \/ detect_date_gaps_finish

\* ---------------------------------------------------------- folder_watcher
\* time.sleep(0.5) in on_created, in ticks
SleepTicks == 1
\* observer.join(timeout=5), in ticks
JoinTimeoutTicks == 10

\* File paths: the stem and the suffix that Path(file_path).suffix returns
Path(stem, suffix) == [stem |-> stem, suffix |-> suffix]
NoPath == Path("", "")
Paths == {Path("a", ".jpg"), Path("b", ".PNG"), Path("c", ".txt")}

\* str.lower() on the suffixes in use
Lower(suffix) ==
  CASE suffix = ".PNG" -> ".png"
    [] suffix = ".JPG" -> ".jpg"
    [] OTHER -> suffix

supported_extensions == {".jpg", ".jpeg", ".png", ".pdf"}

\* (mutant) every file is taken
_is_supported_file_any(file_path) == TRUE

_is_supported_file(file_path) == Lower(file_path.suffix) \in supported_extensions

\* A file system event as watchdog delivers it; size is what os.path.getsize
\* finds for the file: -1 stands for OSError
Event(kind, src_path, dest_path, is_directory, size) ==
  [kind |-> kind, src_path |-> src_path, dest_path |-> dest_path,
   is_directory |-> is_directory, size |-> size]

Events ==
  {Event("created", p, NoPath, FALSE, 1) : p \in Paths}
    \cup {Event("moved", Path("c", ".txt"), Path("a", ".jpg"), FALSE, 1),
          Event("created", Path("a", ".jpg"), NoPath, TRUE, 1),
          Event("created", Path("a", ".jpg"), NoPath, FALSE, 0),
          Event("created", Path("a", ".jpg"), NoPath, FALSE, -1),
          Event("moved", Path("a", ".jpg"), Path("c", ".txt"), FALSE, 1),
          Event("moved", Path("c", ".txt"), Path("a", ".jpg"), FALSE, 0),
          Event("moved", Path("c", ".txt"), Path("a", ".jpg"), TRUE, 1)}

\* The path the handler looks at: dest_path of a move, src_path of a creation
EventPath(e) == IF e.kind = "moved" THEN e.dest_path ELSE e.src_path

\* on_created line 60, on_moved line 76
PassesFilter(e) == ~e.is_directory /\ _is_supported_file(EventPath(e))

\* PauseTriggeredHandler.timer: None, or a Timer with its deadline; a Timer that
\* has expired or was cancelled stays referenced until it is replaced
NoTimer == [state |-> "None", deadline |-> 0]
Timer(state, deadline) == [state |-> state, deadline |-> deadline]

\* _reset_timer, lines 37-40, once the lock is held
ResetTimerBody ==
  timer' = Timer("armed", now + pause_seconds)

\* _trigger_callback, lines 46-56, once the lock is held: with pending files the
\* set is copied and cleared and the callback is called, inside the "with" block;
\* without, the block ends
TriggerCallbackBody ==
  /\ trigger_waiting' = trigger_waiting - 1
  /\ IF new_files # {}
       THEN /\ fired' = Append(fired, new_files)
            /\ new_files' = {}
            /\ in_callback' = TRUE
            /\ h_lock' = "timer"
       ELSE /\ h_lock' = NoOwner
            /\ UNCHANGED <<fired, new_files, in_callback>>

\* _trigger_callback, lines 52-54: the callback returns or raises (the exception
\* is caught) and the "with" block ends
CallbackEnds ==
  /\ in_callback' = FALSE
  /\ h_lock' = NoOwner

\* PauseTriggeredHandler.stop, lines 85-88, once the lock is held
HandlerStopBody ==
  timer' = IF timer.state # "None" THEN NoTimer ELSE timer

InitWatcher ==
  /\ now = 0
  /\ emitted = <<>>
  /\ next_ev = 1
  /\ h_lock = NoOwner
  /\ new_files = {}
  /\ timer = NoTimer
  /\ trigger_waiting = 0
  /\ fired = <<>>
  /\ in_callback = FALSE
  /\ added = <<>>
  /\ o_pc = "idle"
  /\ o_event = Event("none", NoPath, NoPath, FALSE, 0)
  /\ o_wake = 0
  /\ m_pc = "running"
  /\ handler_set = TRUE
  /\ observer_set = TRUE
  /\ observer_stopping = FALSE
  /\ join_deadline = 0

\* Nothing is watched (the other specifications)
IdleWatcher ==
  /\ now = 0
  /\ emitted = <<>>
  /\ next_ev = 1
  /\ h_lock = NoOwner
  /\ new_files = {}
  /\ timer = NoTimer
  /\ trigger_waiting = 0
  /\ fired = <<>>
  /\ in_callback = FALSE
  /\ added = <<>>
  /\ o_pc = "exited"
  /\ o_event = Event("none", NoPath, NoPath, FALSE, 0)
  /\ o_wake = 0
  /\ m_pc = "stopped"
  /\ handler_set = FALSE
  /\ observer_set = FALSE
  /\ observer_stopping = TRUE
  /\ join_deadline = 0

\* The file system emits an event into the observer's queue
EmitEvent ==
  /\ Len(emitted) < MaxEvents
  /\ ~observer_stopping
  /\ \E e \in Events : emitted' = Append(emitted, [event |-> e, time |-> now])
  /\ UNCHANGED <<now, next_ev, h_lock, new_files, timer, trigger_waiting, fired, added,
                 o_pc, o_event, o_wake, m_pc, handler_set, observer_set,
                 observer_stopping, join_deadline>>
  /\ UNCHANGED in_callback
  /\ UNCHANGED <<dvars, cvars, vvars, rvars, avars>>

\* The observer thread takes the next event and calls on_created / on_moved:
\* line 60 / line 76, and the sleep of line 62 begins
Dispatch ==
  /\ o_pc = "idle"
  /\ ~observer_stopping
  /\ next_ev <= Len(emitted)
  /\ LET e == emitted[next_ev].event
     IN  /\ o_event' = e
         /\ o_pc' = IF ~PassesFilter(e) THEN "idle"
                    ELSE IF e.kind = "created" THEN "created_sleep"
                    ELSE "moved_lock"
         /\ o_wake' = IF PassesFilter(e) /\ e.kind = "created"
                        THEN now + SleepTicks ELSE o_wake
  /\ next_ev' = next_ev + 1
  /\ UNCHANGED <<now, emitted, h_lock, new_files, timer, trigger_waiting, fired, added,
                 m_pc, handler_set, observer_set, observer_stopping, join_deadline>>
  /\ UNCHANGED in_callback
  /\ UNCHANGED <<dvars, cvars, vvars, rvars, avars>>

\* on_created, lines 65-72: the sleep is over, the file's size is looked at
on_created_getsize ==
  /\ o_pc = "created_sleep"
  /\ now >= o_wake
  /\ o_pc' = IF o_event.size > 0 THEN "created_lock" ELSE "idle"
  /\ UNCHANGED <<now, emitted, next_ev, h_lock, new_files, timer, trigger_waiting,
                 fired, added, o_event, o_wake, m_pc, handler_set, observer_set,
                 observer_stopping, join_deadline>>
  /\ UNCHANGED in_callback
  /\ UNCHANGED <<dvars, cvars, vvars, rvars, avars>>

\* The thread stands at a "with self.lock" of the handler
AtHandlerLock(t) ==
  CASE t = "observer" -> o_pc \in {"created_lock", "moved_lock", "reset_timer"}
    [] t = "main"     -> m_pc = "handler_stop"
    [] t = "timer"    -> trigger_waiting > 0
    [] OTHER          -> FALSE

\* "with self.lock" (lines 36, 45, 67, 77, 84): the thread gets the lock once
\* nobody holds it, and runs the block.
\*   lines 67-70 / 77-80: the path is added and _reset_timer is called with the
\*     lock held; the thread arrives at line 36
\*   line 36: _reset_timer arms the timer and returns to the caller, whose block
\*     ends and releases the lock
\*   line 45: _trigger_callback hands the pending files to the callback
\*   line 84: stop() cancels the timer; FolderWatcher.stop goes on (line 137)
AcquireHandlerLock(t) ==
  /\ AtHandlerLock(t)
  /\ LockIsFree(h_lock)
  /\ CASE t = "observer" /\ o_pc \in {"created_lock", "moved_lock"} ->
            /\ h_lock' = t
            /\ new_files' = new_files \cup {EventPath(o_event)}
            /\ added' = Append(added, EventPath(o_event))
            /\ o_pc' = "reset_timer"
            /\ UNCHANGED <<timer, trigger_waiting, fired, in_callback, m_pc, handler_set>>
       [] t = "observer" /\ o_pc = "reset_timer" ->
            /\ ResetTimerBody
            /\ h_lock' = NoOwner
            /\ o_pc' = "idle"
            /\ UNCHANGED <<new_files, added, trigger_waiting, fired, in_callback, m_pc,
                           handler_set>>
       [] t = "timer" ->
            /\ TriggerCallbackBody
            /\ UNCHANGED <<timer, added, o_pc, m_pc, handler_set>>
       [] t = "main" ->
            /\ HandlerStopBody
            /\ h_lock' = NoOwner
            /\ handler_set' = FALSE
            /\ m_pc' = "observer_stop"
            /\ UNCHANGED <<new_files, added, trigger_waiting, fired, in_callback, o_pc>>
  /\ UNCHANGED <<now, emitted, next_ev, o_event, o_wake, observer_set,
                 observer_stopping, join_deadline>>
  /\ UNCHANGED <<dvars, cvars, vvars, rvars, avars>>

\* The observer thread leaves its loop once observer.stop() was called
observer_exit ==
  /\ o_pc = "idle"
  /\ observer_stopping
  /\ o_pc' = "exited"
  /\ UNCHANGED <<now, emitted, next_ev, h_lock, new_files, timer, trigger_waiting,
                 fired, added, o_event, o_wake, m_pc, handler_set, observer_set,
                 observer_stopping, join_deadline>>
  /\ UNCHANGED in_callback
  /\ UNCHANGED <<dvars, cvars, vvars, rvars, avars>>

\* FolderWatcher.stop is called, lines 135-136
stop_call ==
  /\ m_pc = "running"
  /\ m_pc' = IF handler_set THEN "handler_stop" ELSE "observer_stop"
  /\ UNCHANGED <<now, emitted, next_ev, h_lock, new_files, timer, trigger_waiting,
                 fired, added, o_pc, o_event, o_wake, handler_set, observer_set,
                 observer_stopping, join_deadline>>
  /\ UNCHANGED in_callback
  /\ UNCHANGED <<dvars, cvars, vvars, rvars, avars>>

\* FolderWatcher.stop, lines 139-141: observer.stop() and the start of join
stop_observer ==
  /\ m_pc = "observer_stop"
  /\ IF observer_set
       THEN /\ observer_stopping' = TRUE
            /\ join_deadline' = now + JoinTimeoutTicks
            /\ m_pc' = "join"
       ELSE /\ m_pc' = "stopped"
            /\ UNCHANGED <<observer_stopping, join_deadline>>
  /\ UNCHANGED <<now, emitted, next_ev, h_lock, new_files, timer, trigger_waiting,
                 fired, added, o_pc, o_event, o_wake, handler_set, observer_set>>
  /\ UNCHANGED in_callback
  /\ UNCHANGED <<dvars, cvars, vvars, rvars, avars>>

\* FolderWatcher.stop, lines 141-146: join returns (the thread ended or the
\* timeout passed) and the observer is dropped
stop_join ==
  /\ m_pc = "join"
  /\ o_pc = "exited" \/ now >= join_deadline
  /\ observer_set' = FALSE
  /\ m_pc' = "stopped"
  /\ UNCHANGED <<now, emitted, next_ev, h_lock, new_files, timer, trigger_waiting,
                 fired, added, o_pc, o_event, o_wake, handler_set, observer_stopping,
                 join_deadline>>
  /\ UNCHANGED in_callback
  /\ UNCHANGED <<dvars, cvars, vvars, rvars, avars>>

\* A thread can take a step without time passing
Urgent ==
  \/ o_pc = "idle" /\ ~observer_stopping /\ next_ev <= Len(emitted)
  \/ o_pc = "idle" /\ observer_stopping
  \/ o_pc = "created_sleep" /\ now >= o_wake
  \/ \E t \in {"observer", "main", "timer"} : AtHandlerLock(t) /\ LockIsFree(h_lock)
  \/ m_pc = "observer_stop"
  \/ m_pc = "join" /\ (o_pc = "exited" \/ now >= join_deadline)

\* Half a second passes; an armed timer whose time has come expires and its
\* thread enters _trigger_callback (threading.Timer.run); a callback that is
\* running goes on for any number of half seconds and then ends
Tick ==
  /\ now < MaxTime
  /\ ~Urgent
  /\ now' = now + 1
  /\ IF timer.state = "armed" /\ timer.deadline <= now + 1
       THEN /\ timer' = Timer("expired", timer.deadline)
            /\ trigger_waiting' = trigger_waiting + 1
       ELSE UNCHANGED <<timer, trigger_waiting>>
  /\ IF in_callback
       THEN CallbackEnds \/ UNCHANGED <<in_callback, h_lock>>
       ELSE UNCHANGED <<in_callback, h_lock>>
  /\ UNCHANGED <<emitted, next_ev, new_files, fired, added, o_pc, o_event,
                 o_wake, m_pc, handler_set, observer_set, observer_stopping,
                 join_deadline>>
  /\ UNCHANGED <<dvars, cvars, vvars, rvars, avars>>

NextWatcher ==
  \/ EmitEvent
  \/ Dispatch
  \/ on_created_getsize
  \/ \E t \in {"observer", "main", "timer"} : AcquireHandlerLock(t)
  \/ observer_exit
  \/ stop_call
  \/ stop_observer
  \/ stop_join
  \/ Tick

\* ------------------------------------------ AutomationOrchestrator.start / stop
\* After __init__ (lines 61-62): not running, no scheduler; the folder watcher
\* was constructed over an existing folder (folder_watcher.py lines 102-108)
InitOrchestrator ==
  /\ a_pc = "idle"
  /\ running = FALSE
  /\ scheduler_set = FALSE
  /\ scheduler_threads = 0
  /\ fw_observer_set = FALSE
  /\ fw_observer_alive = FALSE
  /\ watch_folder_exists = TRUE
  /\ reminder_valid \in BOOLEAN
  /\ api_calls = 0
  /\ start_raised = FALSE

\* The orchestrator is not started or stopped (the other specifications)
IdleOrchestrator ==
  /\ a_pc = "unused"
  /\ running = FALSE
  /\ scheduler_set = FALSE
  /\ scheduler_threads = 0
  /\ fw_observer_set = FALSE
  /\ fw_observer_alive = FALSE
  /\ watch_folder_exists = TRUE
  /\ reminder_valid = TRUE
  /\ api_calls = 0
  /\ start_raised = FALSE

\* stop(), lines 203-218: "if not self.running: return", else the folder
\* watcher and the scheduler are stopped
StopBody ==
  IF ~running
    THEN UNCHANGED <<running, scheduler_set, scheduler_threads, fw_observer_set,
                     fw_observer_alive>>
    ELSE \* folder_watcher.stop() (folder_watcher.py lines 139-144)
         /\ fw_observer_alive' = FALSE
         /\ fw_observer_set' = FALSE
         \* lines 214-216: scheduler.shutdown(wait=False)
         /\ scheduler_threads' = IF scheduler_set THEN scheduler_threads - 1
                                  ELSE scheduler_threads
         /\ scheduler_set' = FALSE
         /\ running' = FALSE

\* start() is called (lines 167-169): it returns at once if already running
start_call ==
  /\ a_pc = "idle"
  /\ api_calls < MaxCalls
  /\ api_calls' = api_calls + 1
  /\ start_raised' = FALSE
  /\ a_pc' = IF running THEN "idle" ELSE "start_scheduler"
  /\ UNCHANGED <<running, scheduler_set, scheduler_threads, fw_observer_set,
                 fw_observer_alive, watch_folder_exists, reminder_valid>>
  /\ UNCHANGED <<dvars, cvars, wvars, vvars, rvars>>

\* _start_scheduler (line 175, lines 226-248): a new BackgroundScheduler is
\* assigned; with reminder settings CronTrigger rejects (line 230) the exception
\* is re-raised before scheduler.start() (line 243)
start_scheduler ==
  /\ a_pc = "start_scheduler"
  /\ scheduler_set' = TRUE
  /\ IF reminder_valid
       THEN /\ scheduler_threads' = scheduler_threads + 1
            /\ a_pc' = "start_watcher"
       ELSE /\ UNCHANGED scheduler_threads
            /\ a_pc' = "except"
  /\ UNCHANGED <<running, fw_observer_set, fw_observer_alive, watch_folder_exists,
                 reminder_valid, api_calls, start_raised>>
  /\ UNCHANGED <<dvars, cvars, wvars, vvars, rvars>>

\* folder_watcher.start() (line 178; folder_watcher.py lines 113-131): nothing to
\* do if there is an observer; else the observer is created and started. If
\* the folder cannot be watched observer.start() raises, no observer thread
\* runs, FolderWatcher.stop() is called (line 130) and the exception is re-raised;
\* whether the observer field was reset by then depends on observer.join of a
\* thread that was not started
folder_watcher_start ==
  /\ a_pc = "start_watcher"
  /\ IF fw_observer_set
       THEN /\ a_pc' = "existing"
            /\ UNCHANGED <<fw_observer_set, fw_observer_alive>>
       ELSE IF watch_folder_exists
         THEN /\ fw_observer_set' = TRUE
              /\ fw_observer_alive' = TRUE
              /\ a_pc' = "existing"
         ELSE /\ fw_observer_set' \in BOOLEAN
              /\ fw_observer_alive' = FALSE
              /\ a_pc' = "except"
  /\ UNCHANGED <<running, scheduler_set, scheduler_threads, watch_folder_exists,
                 reminder_valid, api_calls, start_raised>>
  /\ UNCHANGED <<dvars, cvars, wvars, vvars, rvars>>

\* lines 181-194: _process_existing_files catches every exception (line 344),
\* running is set and start() returns
start_return ==
  /\ a_pc = "existing"
  /\ running' = TRUE
  /\ a_pc' = "idle"
  /\ UNCHANGED <<scheduler_set, scheduler_threads, fw_observer_set, fw_observer_alive,
                 watch_folder_exists, reminder_valid, api_calls, start_raised>>
  /\ UNCHANGED <<dvars, cvars, wvars, vvars, rvars>>

\* lines 196-199: the failure path calls self.stop() and re-raises
start_except ==
  /\ a_pc = "except"
  /\ StopBody
  /\ start_raised' = TRUE
  /\ a_pc' = "idle"
  /\ UNCHANGED <<watch_folder_exists, reminder_valid, api_calls>>
  /\ UNCHANGED <<dvars, cvars, wvars, vvars, rvars>>

\* stop() is called (lines 201-222)
orchestrator_stop ==
  /\ a_pc = "idle"
  /\ api_calls < MaxCalls
  /\ api_calls' = api_calls + 1
  /\ start_raised' = FALSE
  /\ StopBody
  /\ UNCHANGED <<a_pc, watch_folder_exists, reminder_valid>>
  /\ UNCHANGED <<dvars, cvars, wvars, vvars, rvars>>

\* The watch folder is removed or put back by someone else
watch_folder_changes ==
  /\ watch_folder_exists' = ~watch_folder_exists
  /\ UNCHANGED <<a_pc, running, scheduler_set, scheduler_threads, fw_observer_set,
                 fw_observer_alive, reminder_valid, api_calls, start_raised>>
  /\ UNCHANGED <<dvars, cvars, wvars, vvars, rvars>>

NextOrchestrator ==
  \/ start_call
  \/ start_scheduler
  \/ folder_watcher_start
  \/ start_return
  \/ start_except
  \/ orchestrator_stop
  \/ watch_folder_changes

\* --------------------------------------------------------- specifications
InitSpecDigitizer ==
  InitDigitizer /\ IdleCoordinator /\ IdleWatcher /\ IdleValidator
    /\ IdleRefresh /\ IdleOrchestrator

SpecDigitizer == InitSpecDigitizer /\ [][NextDigitizer]_vars

InitSpecChunking ==
  InitChunking /\ IdleCoordinator /\ IdleWatcher /\ IdleValidator
    /\ IdleRefresh /\ IdleOrchestrator

SpecChunking == InitSpecChunking /\ [][NextDigitizer]_vars

InitSpecCoordinator ==
  InitCoordinator /\ IdleDigitizer /\ IdleWatcher /\ IdleValidator
    /\ IdleRefresh /\ IdleOrchestrator

SpecCoordinator == InitSpecCoordinator /\ [][NextCoordinator]_vars

InitSpecWatcher ==
  InitWatcher /\ IdleDigitizer /\ IdleCoordinator /\ IdleValidator
    /\ IdleRefresh /\ IdleOrchestrator

SpecWatcher == InitSpecWatcher /\ [][NextWatcher]_vars

\* The threads are scheduled and the clock advances: a step that can be taken
\* is taken
FairSpecWatcher == InitSpecWatcher /\ [][NextWatcher]_vars /\ WF_vars(NextWatcher)

InitSpecValidator ==
  InitValidator /\ IdleDigitizer /\ IdleWatcher
    /\ IdleRefresh /\ IdleOrchestrator

SpecValidator == InitSpecValidator /\ [][NextValidator]_vars

InitSpecRefresh == InitRefresh /\ IdleDigitizer /\ IdleWatcher /\ IdleOrchestrator

SpecRefresh == InitSpecRefresh /\ [][NextRefresh]_vars

InitSpecOrchestrator ==
  InitOrchestrator /\ IdleDigitizer /\ IdleCoordinator /\ IdleWatcher /\ IdleValidator
    /\ IdleRefresh

SpecOrchestrator == InitSpecOrchestrator /\ [][NextOrchestrator]_vars

\* ============================================================ properties
\* ---- process_single_image (SpecDigitizer)
IsPipelineCall(c) == c.step \in {"step1", "raise"}

\* Number of times the pipeline (_run_digitizer) was invoked for the current file
PipelineInvocations == Cardinality({k \in 1..Len(calls) : IsPipelineCall(calls[k])})

\* The pipeline fails on every attempt before the last one and succeeds on the last
FailsThenSucceeds ==
  /\ Len(script) = retry_attempts
  /\ \A k \in 1..(retry_attempts - 1) : ~AttemptSucceeds(script[k])
  /\ AttemptSucceeds(script[retry_attempts])

\* The pipeline fails on every attempt
AlwaysFails ==
  /\ Len(script) = retry_attempts
  /\ \A k \in 1..retry_attempts : ~AttemptSucceeds(script[k])

\* C7: with retry_attempts = N and a pipeline that fails N-1 times and then
\* succeeds, process_single_image returns success with retry_count = N-1 after
\* exactly N invocations of the pipeline.
C7_SuccessOnLastAttempt ==
  (d_pc = "returned" /\ FailsThenSucceeds) =>
     /\ result.success
     /\ result.retry_count = retry_attempts - 1
     /\ PipelineInvocations = retry_attempts

C7_Witness ==
  /\ d_pc = "returned"
  /\ FailsThenSucceeds
  /\ retry_attempts >= 2
  /\ result.success

\* C8: with a pipeline that always fails (failed result or exception),
\* process_single_image returns failure with retry_count = N after exactly N
\* invocations, and the batch aggregate counts the file in error_count.
C8_FailureAfterAllAttempts ==
  (d_pc = "returned" /\ AlwaysFails) =>
     /\ ~result.success
     /\ result.retry_count = retry_attempts
     /\ PipelineInvocations = retry_attempts
     /\ LET with_file == Append(results, result)
            decisions == DefaultDecisions(with_file)
        IN  /\ _create_processing_result(with_file, decisions).error_count
                 = _create_processing_result(results, DefaultDecisions(results)).error_count + 1
            /\ _create_processing_result(with_file, decisions).error_count >= 1

C8_Witness ==
  /\ d_pc = "returned"
  /\ AlwaysFails
  /\ retry_attempts >= 2
  /\ \E k \in 1..retry_attempts : script[k].raises
  /\ \E k \in 1..retry_attempts : ~script[k].raises
  /\ ~result.success

\* C9: when every attempt failed, the returned result carries the error message
\* of the last failed attempt.
C9_LastErrorMessage ==
  (d_pc = "returned" /\ ~result.success) =>
     /\ attempt_errors # <<>>
     /\ result.error_message = Last(attempt_errors)

AttemptsMade ==
  IF d_pc = "returned" /\ result.success THEN result.retry_count + 1 ELSE attempt

C26_StopsAtFirstSuccess ==
  /\ PipelineInvocations <= retry_attempts
  /\ \A k \in 1..(Len(calls) - 1) : IsPipelineCall(calls[k + 1]) => ~calls[k].success
  /\ IF d_pc = "returned" /\ result.success
       THEN /\ Last(calls).success
            /\ PipelineInvocations = result.retry_count + 1
            /\ sleeps = PipelineInvocations - 1
       ELSE sleeps = Min(PipelineInvocations, retry_attempts - 1)

\* A file succeeded at its first attempt with another attempt still allowed,
\* after a file that succeeded at its second attempt
C26_Witness ==
  /\ d_pc = "returned"
  /\ result.success
  /\ result.retry_count = 0
  /\ retry_attempts >= 2
  /\ PipelineInvocations = 1
  /\ results # <<>>
  /\ Last(results).success
  /\ Last(results).retry_count = 1

\* C27: within one attempt, step 2 (the upload) is invoked only if the upload
\* was requested, the uploader exists and step 1 succeeded in that attempt, and
\* then it is invoked; when step 1 fails, or the upload is not requested or not
\* available, the attempt's outcome is that of step 1.
C27_Step2OnlyAfterStep1 ==
  /\ \A k \in 1..Len(calls) :
        /\ calls[k].step = "step2" =>
              /\ upload_to_notion /\ has_notion_uploader
              /\ k > 1 /\ calls[k - 1].step = "step1" /\ calls[k - 1].success
        /\ (calls[k].step = "step1" /\ calls[k].success
              /\ upload_to_notion /\ has_notion_uploader) =>
              (k < Len(calls) /\ calls[k + 1].step = "step2")
  /\ \A k \in 1..Len(attempt_errors) :
        (~script[k].raises /\ ~_run_digitizer_step1(script[k].s1).success) =>
           attempt_errors[k] = _run_digitizer_step1(script[k].s1).error_message
  /\ (d_pc = "returned" /\ result.success /\ ~(upload_to_notion /\ has_notion_uploader)) =>
        /\ Last(calls).step = "step1"
        /\ result.has_output = _run_digitizer_step1("ok").has_output
        /\ result.error_message = _run_digitizer_step1("ok").error_message

\* With the upload requested and available, an attempt whose step 1 failed (no
\* step 2) was followed by one whose step 1 and step 2 both ran
C27_Witness ==
  /\ upload_to_notion /\ has_notion_uploader
  /\ Len(calls) >= 3
  /\ calls[1].step = "step1" /\ ~calls[1].success
  /\ calls[2].step = "step1" /\ calls[2].success
  /\ calls[3].step = "step2"

\* ---- process_batch (SpecDigitizer)
\* C11: process_batch never aborts on a file's failure: the results are, at every
\* moment, the results of the first files of the input in input order, every
\* result comes from a call of process_single_image that invoked the pipeline
\* for that file, and process_batch returns one result per input path.
C11_OneResultPerPath ==
  /\ Len(results) <= Len(image_paths)
  /\ \A k \in 1..Len(results) : results[k].image_path = image_paths[k]
  /\ d_pc = "returned" =>
        /\ Len(results) < Len(image_paths)
        /\ result.image_path = image_paths[Len(results) + 1]
        /\ PipelineInvocations >= 1
  /\ d_pc = "done" => Len(results) = Len(image_paths)

\* A batch returned in which a file that exhausted its attempts is followed by a
\* file that succeeded
C11_Witness ==
  /\ d_pc = "done"
  /\ \E k \in 1..(Len(results) - 1) :
        /\ ~results[k].success
        /\ results[k].retry_count = retry_attempts
        /\ results[k + 1].success

\* C22: every terminal failure is represented in the aggregate: in the
\* ProcessingResult that _create_processing_result builds from the results of
\* process_batch, errors has as many entries as error_count says, every failed
\* result contributes its (non-empty) message and no successful result
\* contributes any.
C22_ErrorsMatchErrorCount ==
  LET pr == _create_processing_result(results, <<>>)
      failed == {k \in 1..Len(results) : ~results[k].success}
  IN  /\ Len(pr.errors) = pr.error_count
      /\ pr.error_count = Cardinality(failed)
      /\ \A k \in 1..Len(results) :
            results[k].success <=> results[k].error_message = NoMsg
      /\ \A k \in failed :
            \E j \in 1..Len(pr.errors) : pr.errors[j] = results[k].error_message

\* A batch returned with a file that failed for good and a file that succeeded
C22_Witness ==
  /\ d_pc = "done"
  /\ _create_processing_result(results, <<>>).error_count >= 1
  /\ _create_processing_result(results, <<>>).success_count >= 1

\* ---- process_batch (SpecChunking)
\* range(0, total_images, batch_size)
ChunkStarts == {i \in 0..(Len(image_paths) - 1) : i % batch_size = 0}

\* C28: the chunks of process_batch are a partition of the input that keeps
\* its order: each chunk is a non-empty consecutive slice of at most batch_size
\* files, every position of the input lies in exactly one chunk, and the files
\* are processed one after another, chunk by chunk, in input order.
C28_ChunksPartition ==
  /\ \A i \in ChunkStarts :
        LET chunk == Chunk(image_paths, i, batch_size)
        IN  /\ Len(chunk) >= 1
            /\ Len(chunk) <= batch_size
            /\ i + Len(chunk) <= Len(image_paths)
            /\ \A j \in 1..Len(chunk) : chunk[j] = image_paths[i + j]
  /\ \A k \in 1..Len(image_paths) :
        Cardinality({i \in ChunkStarts :
                       k - i \in 1..Len(Chunk(image_paths, i, batch_size))}) = 1
  /\ chunk_i % batch_size = 0
  /\ d_pc # "done" => Len(results) = Min(chunk_i, Len(image_paths)) + chunk_j - 1
  /\ d_pc \in {"attempt", "returned"} =>
        /\ chunk_i \in ChunkStarts
        /\ image_path = image_paths[chunk_i + chunk_j]
        /\ image_path = Chunk(image_paths, chunk_i, batch_size)[chunk_j]

\* The last file of a batch of three is being processed, alone in the second
\* chunk of a chunking by two
C28_Witness ==
  /\ Len(image_paths) = 3
  /\ batch_size = 2
  /\ d_pc = "attempt"
  /\ chunk_i = 2
  /\ chunk_j = 1
  /\ Len(results) = 2

\* ---- _handle_new_files (SpecCoordinator)
\* The thread is inside the body of _handle_new_files
InBody(t) == c_pc[t] \in {"validate", "filter", "process", "notify", "gaps"}

\* C3: _handle_new_files is single-flight: at most one call is inside the body,
\* the caller inside the body holds the lock, and the collaborators' invocations
\* of two calls are never interleaved.
C3_SingleFlight ==
  /\ \A t \in CoordThreads : \A u \in CoordThreads : (InBody(t) /\ InBody(u)) => t = u
  /\ \A t \in CoordThreads : InBody(t) => c_lock = t
  /\ \A i \in 1..Len(c_log) : \A k \in 1..Len(c_log) :
        (i < k /\ c_log[i].thread = c_log[k].thread)
           => c_log[i + 1].thread = c_log[i].thread

\* Two calls overlapped (one waited for the lock while the other was in the body)
\* and both invoked collaborators more than once
C3_Witness ==
  /\ \E t \in CoordThreads : \E u \in CoordThreads :
        /\ t # u
        /\ InBody(t)
        /\ Cardinality({k \in 1..Len(c_log) : c_log[k].thread = t}) >= 2
        /\ Cardinality({k \in 1..Len(c_log) : c_log[k].thread = u}) >= 2

\* The entries of the log made by the thread, in order
RECURSIVE LogOf(_, _)
LogOf(log, t) ==
  IF log = <<>> THEN <<>>
  ELSE (IF log[1].thread = t THEN <<log[1]>> ELSE <<>>) \o LogOf(Tail(log), t)

\* C16: an exception raised inside the body of _handle_new_files does not leave
\* the call: the error notification with the batch's file count and file names is
\* pushed right after it, the call has returned, the lock is not held by a call
\* that returned, and a call that waits for the lock can go on.
C16_ExceptionContained ==
  /\ \A i \in 1..Len(c_log) :
        c_log[i].kind = "raise" =>
           LET t == c_log[i].thread
               batch == c_log[i].arg
           IN  /\ i < Len(c_log)
               /\ c_log[i + 1].thread = t
               /\ c_log[i + 1].kind = "error"
               /\ c_log[i + 1].arg.file_count = Len(batch)
               /\ c_log[i + 1].arg.files = [k \in 1..Len(batch) |-> FileName(batch[k])]
               /\ c_pc[t] = "returned"
               /\ c_lock # t
  /\ \A t \in CoordThreads : c_pc[t] \in {"idle", "lock", "returned"} => c_lock # t
  /\ (\E t \in CoordThreads : c_pc[t] = "lock")
        => (c_lock = NoOwner \/ \E u \in CoordThreads : c_lock = u /\ InBody(u))

\* A call failed while another call waited for the lock, and that later call has
\* pushed its summary
C16_Witness ==
  \E i \in 1..Len(c_log) : \E k \in 1..Len(c_log) :
     /\ i < k
     /\ c_log[i].kind = "raise"
     /\ Len(c_log[i].arg) >= 2
     /\ c_log[k].kind = "summary"
     /\ c_log[k].thread # c_log[i].thread

\* Every decision of the call is 'skip'
AllSkipped(t) ==
  /\ Len(c_decisions[t]) = Len(c_files[t])
  /\ \A k \in 1..Len(c_decisions[t]) : c_decisions[t][k].action = "skip"

\* C17: when every file of the batch is decided 'skip', the step that follows the
\* decisions returns from _handle_new_files: process_batch is not invoked and no
\* summary, gap report or error report is pushed (the log stays as it is), and a
\* call is past that step only with files to process.
C17_AllSkippedReturns ==
  [][ \A t \in CoordThreads :
        /\ (c_pc[t] = "filter" /\ AllSkipped(t) /\ c_pc'[t] # c_pc[t])
              => (c_pc'[t] = "returned" /\ c_log' = c_log /\ c_lock' = NoOwner)
        /\ c_pc[t] \in {"process", "notify", "gaps"}
              => (c_to_process[t] # <<>> /\ ~AllSkipped(t))
        /\ c_pc[t] = "returned" => LogOf(c_log', t) = LogOf(c_log, t) ]_vars

\* A call with a batch of at least two files has returned, and all it did was
\* to extract the dates
C17_Witness ==
  \E t \in CoordThreads :
     /\ c_pc[t] = "returned"
     /\ Len(LogOf(c_log, t)) >= 2
     /\ \A k \in 1..Len(LogOf(c_log, t)) : LogOf(c_log, t)[k].kind = "extract_date"

\* The place of a collaborator's invocation in the order of steps of one batch
StepRank(kind) ==
  CASE kind = "extract_date" -> 1
    [] kind = "digitize"     -> 2
    [] kind = "summary"      -> 3
    [] kind = "detect_gaps"  -> 4
    [] kind = "gap_report"   -> 5
    [] OTHER                 -> 6

\* The invocations the call of the thread has made so far are in the order of
\* the steps (each no earlier than the one before it in the log), the summary
\* at most once and last before the gap detection, and the files handed to
\* process_batch are, in order, those decided 'new' or 'update'
StepsInOrder(t) ==
  LET log == LogOf(c_log, t)
      selected == {k \in 1..Len(c_decisions[t]) :
                     c_decisions[t][k].action \in {"new", "update"}}
      digitized == {k \in 1..Len(log) : log[k].kind = "digitize"}
  IN  /\ \A i \in 1..(Len(log) - 1) :
            /\ StepRank(log[i].kind) <= StepRank(log[i + 1].kind)
            /\ StepRank(log[i].kind) \in 3..5 =>
                  StepRank(log[i].kind) < StepRank(log[i + 1].kind)
      /\ \A i \in 1..Len(log) : StepRank(log[i].kind) <= 3
      /\ c_pc[t] \in {"process", "notify", "gaps"} =>
            /\ Len(c_decisions[t]) = Len(c_files[t])
            /\ \A k \in digitized : \E f \in selected : log[k].arg = c_files[t][f]
            /\ \A i \in digitized : \A j \in digitized : i < j => log[i].arg < log[j].arg
            /\ \A f \in selected :
                  (\E k \in digitized : log[k].arg = c_files[t][f])
                    \/ (c_pc[t] = "process"
                          /\ \A k \in digitized : log[k].arg < c_files[t][f])
      /\ c_pc[t] \in {"idle", "lock", "validate", "filter"} => digitized = {}
      /\ c_pc[t] = "notify" => log[Len(log)].kind = "digitize"
      /\ c_pc[t] = "gaps" => log[Len(log)].kind = "summary"

\* C31: within one batch the steps come in the order decisions, process_batch
\* on exactly the files decided 'new' or 'update', summary, gap detection; the
\* gap detection runs exactly if a validator is configured and a decision
\* carries a date, and the gap report is pushed, after the summary and as a
\* message of its own, exactly if a gap was found.
C31_StepsInOrder ==
  [][ \A t \in CoordThreads :
        /\ c_lock = t => StepsInOrder(t)
        /\ (c_pc[t] = "gaps" /\ c_pc'[t] = "returned" /\ Last(c_log').kind # "error") =>
              LET pushed == SubSeq(c_log', Len(c_log) + 1, Len(c_log'))
                  dated == {k \in 1..Len(c_decisions[t]) : c_decisions[t][k].date # NoDate}
                  detects == {k \in 1..Len(pushed) : pushed[k].kind = "detect_gaps"}
                  reports == {k \in 1..Len(pushed) : pushed[k].kind = "gap_report"}
              IN  /\ detects # {} <=> (has_validator /\ dated # {})
                  /\ \A k \in detects : pushed[k].arg = Cardinality(dated)
                  /\ reports # {} <=>
                        /\ detects # {}
                        /\ detect_date_gaps(
                             [k \in 1..Len(DetectedDates(c_decisions[t])) |->
                                DetectedDates(c_decisions[t])[k]], existing_dates) # <<>>
                  /\ \A k \in 1..Len(pushed) : pushed[k].thread = t
                  /\ detects \subseteq {1}
                  /\ reports \subseteq {2}
                  /\ \A k \in reports : pushed[k].arg >= 1 ]_vars

\* A call has returned after it extracted two dates, processed a file, pushed
\* the summary, detected gaps and pushed the gap report
C31_Witness ==
  \E t \in CoordThreads :
     LET log == LogOf(c_log, t)
     IN  /\ c_pc[t] = "returned"
         /\ Len(log) >= 6
         /\ log[1].kind = "extract_date"
         /\ log[2].kind = "extract_date"
         /\ log[Len(log) - 3].kind = "digitize"
         /\ log[Len(log) - 2].kind = "summary"
         /\ log[Len(log) - 1].kind = "detect_gaps"
         /\ log[Len(log)].kind = "gap_report"

\* C35: for every batch that reaches _create_processing_result, new_entries +
\* updated_entries + skipped_count is the number of files of the batch, and
\* success_count + error_count is new_entries + updated_entries, the number of
\* files handed to process_batch.
C35_CountsConsistent ==
  \A t \in CoordThreads :
     c_pc[t] = "notify" =>
       LET aggregate == _create_processing_result(c_results[t], c_decisions[t])
       IN  /\ aggregate.new_entries + aggregate.updated_entries + aggregate.skipped_count
                = Len(c_files[t])
           /\ aggregate.success_count + aggregate.error_count
                = aggregate.new_entries + aggregate.updated_entries
           /\ aggregate.new_entries + aggregate.updated_entries = Len(c_to_process[t])

\* The aggregate is built for a batch with a skipped file and a file whose
\* processing failed
C35_Witness ==
  \E t \in CoordThreads :
     /\ c_pc[t] = "notify"
     /\ _create_processing_result(c_results[t], c_decisions[t]).skipped_count = 1
     /\ _create_processing_result(c_results[t], c_decisions[t]).error_count = 1

\* C18: without a date validator every file of the batch is decided 'new',
\* process_batch is given exactly the batch's files in their order, and neither
\* date extraction nor gap detection runs.
C18_NoValidatorAllNew ==
  ~has_validator =>
     /\ \A t \in CoordThreads :
           /\ c_pc[t] = "filter" =>
                 /\ Len(c_decisions[t]) = Len(c_files[t])
                 /\ \A k \in 1..Len(c_files[t]) : c_decisions[t][k].action = "new"
           /\ c_pc[t] \in {"process", "notify", "gaps"} => c_to_process[t] = c_files[t]
           /\ c_pc[t] \in {"notify", "gaps"} =>
                 [k \in 1..Len(c_files[t]) |-> LogOf(c_log, t)[k]]
                   = [k \in 1..Len(c_files[t]) |-> LogEntry(t, "digitize", c_files[t][k])]
     /\ \A i \in 1..Len(c_log) :
           c_log[i].kind \notin {"extract_date", "detect_gaps", "gap_report"}

\* Without a validator, a call with a batch of two files has pushed its summary
\* and is at the point where gap detection would run
C18_Witness ==
  /\ ~has_validator
  /\ \E t \in CoordThreads :
        /\ c_pc[t] = "gaps"
        /\ Len(c_files[t]) >= 2
        /\ \E i \in 1..Len(c_log) : c_log[i].thread = t /\ c_log[i].kind = "summary"

\* ---- PauseTriggeredHandler (SpecWatcher)
\* The extensions the handler is to accept, in the spellings in use
AcceptedSuffixes == {".jpg", ".JPG", ".jpeg", ".png", ".PNG", ".pdf"}

\* A qualifying event: a non-directory, non-empty file with a supported extension
Qualifies(e) ==
  /\ ~e.is_directory
  /\ EventPath(e).suffix \in AcceptedSuffixes
  /\ e.size > 0

IsQualifying(x) == Qualifies(x.event)

\* The qualifying events emitted so far, with their times
QualifyingEmitted == SelectSeq(emitted, IsQualifying)

StopCalled == m_pc # "running"

\* Time the observer thread may need before the last event reaches the handler
Slack == MaxEvents * SleepTicks

\* Number of fired batches that contain the path
BatchesWith(p) == Cardinality({k \in 1..Len(fired) : p \in fired[k]})

\* Number of times the path was added to the pending set
AddsOf(p) == Cardinality({k \in 1..Len(added) : added[k] = p})

\* C1: qualifying events of which no two consecutive ones are more than
\* pause_seconds apart, followed by silence, make the callback run exactly once,
\* with exactly the set of the events' paths.
C1_OneBatchPerBurst ==
  LET q == QualifyingEmitted
  IN  ( /\ q # <<>>
        /\ ~StopCalled
        /\ \A k \in 1..(Len(q) - 1) : q[k + 1].time - q[k].time <= pause_seconds
        /\ now > Last(q).time + pause_seconds + Slack )
      => fired = << {EventPath(q[k].event) : k \in 1..Len(q)} >>

\* C2: two qualifying events more than pause_seconds apart, each followed by
\* silence, make the callback run exactly twice, each batch with its own path.
C2_TwoBatches ==
  LET q == QualifyingEmitted
  IN  ( /\ Len(q) = 2
        /\ ~StopCalled
        /\ q[2].time - q[1].time > pause_seconds + Slack
        /\ now > q[2].time + pause_seconds + Slack )
      => /\ Len(fired) = 2
         /\ fired[1] = {EventPath(q[1].event)}
         /\ fired[2] = {EventPath(q[2].event)}

\* C4: no qualifying event is lost: once the quiet period after the last event
\* is over, every path that on_created / on_moved added has been handed to the
\* callback, in no more batches than it was added.
C4_NoEventLost ==
  ( /\ emitted # <<>>
    /\ ~StopCalled
    /\ now > Last(emitted).time + pause_seconds + Slack )
  => \A k \in 1..Len(added) :
        /\ BatchesWith(added[k]) >= 1
        /\ BatchesWith(added[k]) <= AddsOf(added[k])

\* C6: an event whose path has an unsupported extension does not get past the
\* filter of on_created / on_moved: its path is never pending, never in a batch,
\* and the handler never goes on to _reset_timer for it.
C6_UnsupportedIgnored ==
  /\ \A p \in new_files : p.suffix \in AcceptedSuffixes
  /\ \A k \in 1..Len(added) : added[k].suffix \in AcceptedSuffixes
  /\ \A k \in 1..Len(fired) : \A p \in fired[k] : p.suffix \in AcceptedSuffixes
  /\ o_pc \in {"created_sleep", "created_lock", "moved_lock", "reset_timer"}
        => EventPath(o_event).suffix \in AcceptedSuffixes

\* A creation and a move of non-empty files with an unsupported extension were
\* both handed to the handler, and the observer thread is idle again
C6_Witness ==
  /\ o_pc = "idle"
  /\ \E k \in 1..(next_ev - 1) :
        LET e == emitted[k].event
        IN  e.kind = "created" /\ ~e.is_directory /\ e.size > 0
              /\ EventPath(e).suffix \notin AcceptedSuffixes
  /\ \E k \in 1..(next_ev - 1) :
        LET e == emitted[k].event
        IN  e.kind = "moved" /\ ~e.is_directory /\ e.size > 0
              /\ EventPath(e).suffix \notin AcceptedSuffixes

\* C21: a file that is zero-length or not readable (size 0 or OSError) never
\* enters the pending set and never gets as far as _reset_timer, whether it
\* arrives by a creation or by a move: the handler does not go on to its lock
\* for such an event, and every pending path comes from the event of a
\* readable, non-empty file.
C21_EmptyFileIgnored ==
  /\ o_pc \in {"created_lock", "moved_lock", "reset_timer"} => o_event.size > 0
  /\ \A p \in new_files :
        \E k \in 1..(next_ev - 1) :
           EventPath(emitted[k].event) = p /\ emitted[k].event.size > 0

\* C24: handling a qualifying event never blocks for ever: once on_created /
\* on_moved has taken the handler lock, it adds the path, re-arms the timer,
\* releases the lock and returns, so the lock is eventually free again.
C24_LockFreedAfterEvent == (h_lock = "observer") ~> (h_lock = NoOwner)

\* C25: FolderWatcher.stop() always terminates, and on return handler and
\* observer are both None (a call early enough for the join timeout to pass
\* before the clock's horizon).
C25_StopTerminates ==
  (StopCalled /\ now + JoinTimeoutTicks <= MaxTime)
    ~> (m_pc = "stopped" /\ ~handler_set /\ ~observer_set)

\* C20: the registered callback is invoked outside the handler's lock: once the
\* quiet period is over the pending paths have been swapped out of new_files
\* and handed to the callback, and while the callback runs the lock is free, so
\* that on_created, on_moved and stop() are not blocked by it.
C20_CallbackOutsideLock ==
  /\ ( /\ added # <<>>
       /\ ~StopCalled
       /\ now > Last(emitted).time + pause_seconds + Slack )
     => /\ new_files = {}
        /\ fired # <<>>
  /\ in_callback => LockIsFree(h_lock)

\* ---- DateValidator (SpecValidator)
\* The known dates of the call: the processed dates and the dates of the index
Known ==
  {v_processed_dates[k] : k \in 1..Len(v_processed_dates)}
    \cup {d \in Days : DateStr(d) \in DOMAIN existing_dates}

\* Two known dates with no known date between them
AdjacentKnown(a, b) ==
  /\ a \in Known
  /\ b \in Known
  /\ a < b
  /\ \A c \in Known : ~(a < c /\ c < b)

\* The returned list has exactly one gap for every adjacent pair of known dates
\* more than one day apart, with the days between them in ascending order, and
\* nothing else
OneGapPerDistantPair ==
  /\ \A a \in Known : \A b \in Known :
        (AdjacentKnown(a, b) /\ b - a > 1)
           => Cardinality({k \in 1..Len(v_gaps) :
                  v_gaps[k].start_date = a /\ v_gaps[k].end_date = b}) = 1
  /\ \A k \in 1..Len(v_gaps) :
        LET g == v_gaps[k]
        IN  /\ AdjacentKnown(g.start_date, g.end_date)
            /\ g.end_date - g.start_date > 1
            /\ g.missing_dates
                 = [i \in 1..(g.end_date - g.start_date - 1) |-> g.start_date + i]

\* test_date_validator: 2025-05-25, -26, -30, -31 (days of May) with an empty index
ExampleOfMay ==
  detect_date_gaps(<<25, 26, 30, 31>>, <<>>)
    = << [start_date |-> 26, end_date |-> 30, missing_dates |-> <<27, 28, 29>>] >>

\* C12 as claimed: for whatever list it is called with, detect_date_gaps returns
\* exactly one DateGap per adjacent pair of known dates (processed dates and
\* parseable index dates) more than one day apart, with start, end and the
\* missing dates in ascending order, and no other gap.
C12_GapPerDistantPair ==
  v_pc = "gaps" => (OneGapPerDistantPair /\ ExampleOfMay)

\* C12 as the code has it: the same, for a non-empty list of processed dates; the
\* known dates of an empty list are not looked at.
C12_GapPerDistantPairOfNonEmpty ==
  (v_pc = "gaps" /\ v_processed_dates # <<>>) => (OneGapPerDistantPair /\ ExampleOfMay)

\* A call whose known dates come from the list and from the index, with a pair
\* one day apart, and a gap of more than one missing date
C12_Witness ==
  /\ v_pc = "gaps"
  /\ v_processed_dates # <<>>
  /\ \E d \in Known : \A k \in 1..Len(v_processed_dates) : v_processed_dates[k] # d
  /\ \E a \in Known : AdjacentKnown(a, a + 1)
  /\ \E k \in 1..Len(v_gaps) : Len(v_gaps[k].missing_dates) >= 2

\* C13 as claimed: a single processed date or an empty list gives no gaps,
\* whatever the index holds.
C13_NoGapsUpToOneDate ==
  (v_pc = "gaps" /\ Len(v_processed_dates) <= 1) => v_gaps = <<>>

\* C13 as the code has it: an empty list gives no gaps whatever the index holds;
\* a single processed date gives no gaps exactly if no two adjacent known dates
\* (that date and the dates of the index) are more than one day apart, in
\* particular if it is the only known date.
C13_NoGapsForEmptyOrSingleKnown ==
  v_pc = "gaps" =>
     /\ v_processed_dates = <<>> => v_gaps = <<>>
     /\ (Len(v_processed_dates) = 1 /\ Cardinality(Known) = 1) => v_gaps = <<>>
     /\ Len(v_processed_dates) = 1 =>
           (v_gaps = <<>> <=> \A a \in Known : \A b \in Known :
                                  AdjacentKnown(a, b) => b - a = 1)

\* A call with an empty list while the index alone has two dates more than a
\* day apart
C13_Witness ==
  /\ v_pc = "gaps"
  /\ v_processed_dates = <<>>
  /\ \E a \in Known : \E b \in Known : AdjacentKnown(a, b) /\ b - a > 1
  /\ v_gaps = <<>>

\* The lists with the elements of p: every arrangement and multiplicity of the
\* length of p, and the ascending list without repetitions
SameDates(p) ==
  LET S == {p[k] : k \in 1..Len(p)}
  IN  {q \in [1..Len(p) -> S] : {q[k] : k \in 1..Len(p)} = S} \cup {Sorted(S)}

\* C14: for a non-empty list, every permutation of it and every list with the
\* same dates repeated (dates of the index among them) gives the same gaps.
C14_OrderAndMultiplicity ==
  (v_pc = "gaps" /\ v_processed_dates # <<>>) =>
     \A q \in SameDates(v_processed_dates) :
        detect_date_gaps(q, existing_dates) = v_gaps

\* A call with a list that is neither ascending nor free of repetitions, holds
\* a date of the index, and has a gap
C14_Witness ==
  /\ v_pc = "gaps"
  /\ \E i \in 1..Len(v_processed_dates) : \E k \in 1..Len(v_processed_dates) :
        i < k /\ v_processed_dates[i] > v_processed_dates[k]
  /\ \E i \in 1..Len(v_processed_dates) : \E k \in 1..Len(v_processed_dates) :
        i < k /\ v_processed_dates[i] = v_processed_dates[k]
  /\ \E i \in 1..Len(v_processed_dates) :
        DateStr(v_processed_dates[i]) \in DOMAIN existing_dates
  /\ v_gaps # <<>>

\* C15: validate_batch decides 'new' without existing_id for a file whose date
\* was extracted and is not in the index (so for every dated file if the index
\* is empty), and 'update' with the index's page id for a date the index holds.
C15_NewOrUpdate ==
  v_pc = "decided" =>
     \A k \in 1..Len(v_image_paths) :
        v_extracted[k] \in Dates =>
           IF \E key \in DOMAIN existing_dates : key = DateStr(v_extracted[k])
             THEN /\ v_decisions[k].action = "update"
                  /\ v_decisions[k].existing_id = existing_dates[DateStr(v_extracted[k])]
                  /\ v_decisions[k].date = v_extracted[k]
             ELSE /\ v_decisions[k].action = "new"
                  /\ v_decisions[k].existing_id = ""
                  /\ v_decisions[k].date = v_extracted[k]

\* A batch with a file whose date the index holds and a file whose date it does
\* not hold
C15_Witness ==
  /\ v_pc = "decided"
  /\ \E k \in 1..Len(v_decisions) : v_decisions[k].action = "update"
  /\ \E k \in 1..Len(v_decisions) : v_decisions[k].action = "new"

\* C36: validate_batch returns exactly one decision per input path, in input
\* order, also when the extraction fails or raises for a file (that file gets
\* 'skip' with date None), so the decision at a position is the decision of
\* the file at that position.
C36_OneDecisionPerPath ==
  v_pc = "decided" =>
     /\ Len(v_decisions) = Len(v_image_paths)
     /\ \A k \in 1..Len(v_image_paths) :
           IF v_extracted[k] \in {NoDate, ExtractRaises}
             THEN /\ k \in DOMAIN v_decisions
                  /\ v_decisions[k].action = "skip"
                  /\ v_decisions[k].date = NoDate
             ELSE /\ k \in DOMAIN v_decisions
                  /\ v_decisions[k].action \in {"new", "update"}
                  /\ v_decisions[k].date = v_extracted[k]

\* A batch whose first file's extraction raises and whose second file has a date
C36_Witness ==
  /\ v_pc = "decided"
  /\ Len(v_image_paths) = 2
  /\ v_extracted[1] = ExtractRaises
  /\ v_extracted[2] \in Dates
  /\ v_decisions[2].date = v_extracted[2]

\* The missing dates of the returned gaps
MissingDates ==
  UNION {{v_gaps[k].missing_dates[i] : i \in 1..Len(v_gaps[k].missing_dates)} :
           k \in 1..Len(v_gaps)}

\* C38: for a non-empty input the returned gaps are in ascending order and
\* pairwise non-overlapping, no missing date is a known date, and the known
\* dates with all missing dates are exactly the days from the earliest to the
\* latest known date.
C38_GapsCoverTheRange ==
  (v_pc = "gaps" /\ v_processed_dates # <<>>) =>
     /\ \A i \in 1..Len(v_gaps) : \A j \in 1..Len(v_gaps) :
           i < j => v_gaps[i].end_date <= v_gaps[j].start_date
     /\ \A k \in 1..Len(v_gaps) : v_gaps[k].start_date < v_gaps[k].end_date
     /\ \A i \in 1..Len(v_gaps) : \A j \in 1..Len(v_gaps) :
           i # j =>
             {v_gaps[i].missing_dates[n] : n \in 1..Len(v_gaps[i].missing_dates)}
               \cap {v_gaps[j].missing_dates[n] : n \in 1..Len(v_gaps[j].missing_dates)}
               = {}
     /\ MissingDates \cap Known = {}
     /\ \E lo \in Known : \E hi \in Known :
           /\ \A d \in Known : lo <= d /\ d <= hi
           /\ Known \cup MissingDates = lo..hi

\* A call that returns two gaps, with a known date that only the index holds
C38_Witness ==
  /\ v_pc = "gaps"
  /\ v_processed_dates # <<>>
  /\ Len(v_gaps) = 2
  /\ \E d \in Known : \A k \in 1..Len(v_processed_dates) : v_processed_dates[k] # d

\* ---- refresh_existing_dates (SpecRefresh)
\* The index once the refresh is complete
NewIndex == _parse_existing_dates(old_index, summary)

\* C23: a refresh replaces the index wholesale: whenever validate_batch or
\* detect_date_gaps is about to read the index, the index is either the complete
\* old one or the complete new one, and the gaps detect_date_gaps returns are
\* those of the old or of the new index.
C23_WholesaleReplace ==
  /\ v_pc \in {"validating", "iterating"} => existing_dates \in {old_index, NewIndex}
  /\ v_pc = "gaps" =>
        v_gaps \in {detect_date_gaps(v_processed_dates, old_index),
                    detect_date_gaps(v_processed_dates, NewIndex)}

\* The date-to-identifier mapping of the source at the refresh: the entries of
\* 'pages' that have a date and an id, a later entry of a date replacing an
\* earlier one
SourceMapping == _parse_existing_dates(<<>>, summary)

\* C39: after refresh_existing_dates completes with a successful query the
\* index equals the source's current mapping: a date that is no longer in the
\* source is no longer in the index, and a file with such a date is classified
\* 'new', not 'update'.
C39_IndexEqualsSource ==
  r_pc = "done" =>
     /\ existing_dates = SourceMapping
     /\ \A d \in Days :
           DateStr(d) \notin DOMAIN SourceMapping
             => Decide(d, existing_dates).action = "new"

\* ---- AutomationOrchestrator.start (SpecOrchestrator)
\* C34: after a start() that failed, no watcher observer and no scheduler is
\* left running.
C34_FailedStartLeavesNothingRunning ==
  (a_pc = "idle" /\ start_raised) =>
     (~fw_observer_alive /\ scheduler_threads = 0)

====
